---- MODULE Spec2Model ----
(***************************************************************************)
(* Verification model of three parts of the compiler backend:              *)
(*   - the CPU flags verifier   (lib/codegen/src/verifier/flags.rs)         *)
(*   - the stackmap inserter    (cranelift-codegen/src/regalloc/stackmaps.rs)*)
(*   - the text parser and its source map (lib/reader/src/parser.rs,        *)
(*     lib/reader/src/sourcemap.rs)                                         *)
(* Each part has its own specification (SpecF, SpecS, SpecP) over the       *)
(* variables of that part; the variables of the other parts stay idle.      *)
(***************************************************************************)
EXTENDS Integers, Sequences, FiniteSets, TLC

VARIABLES
    \* ---- flags verifier ----
    func,       \* the function under verification (layout of EBBs, jump tables)
    isa,        \* TRUE iff verify_flags was given Some(isa)
    livein,     \* FlagsVerifier.livein : Ebb -> Option<Value>
    worklist,   \* the SparseSet worklist of check(), as its dense vector
    fresult,    \* "running", "Ok", "Err" or "Panic" (a failed assertion)
    ferr,       \* the error returned, when fresult = "Err"
    fvisits,    \* history: every visit_ebb call of check(), with livein at the call and the result
    \* ---- stackmap inserter ----
    sfunc,      \* the function as given to emit_stackmaps (what liveness was computed on)
    slayout,    \* func.layout and the instructions in it, with the inserted stackmaps
    dest_ebbs,  \* the HashSet dest_ebbs
    curr,       \* the EBB being processed (0: None)
    pos,        \* the FuncCursor position
    tlive,      \* tracker.live(), the tracker's list of live values
    self_loop,  \* the self_loop flag of the current EBB
    spc,        \* "top", "walk" or "done": where emit_stackmaps stands
    inserted,   \* history: every stackmap inserted, with the tracker's live list then
    walklog,    \* history: every EBB the outer loop took and every instruction the walk took
    \* ---- parser ----
    tables,     \* the preamble tables of the function: stack_slots, global_vars, heaps,
                \* dfg.signatures, dfg.ext_funcs, jump_tables
    locations,  \* SourceMap.locations : entity -> line
    values,     \* dfg.values
    dfg_ebbs,   \* the EBBs of the dfg, each with its parameter list
    layout,     \* the EBBs of function.layout, in layout order
    dfg_insts,  \* the instructions, each with the EBB it was appended to
    aliases,    \* Context.aliases
    perr,       \* the error the parse ended with
    pphase,     \* "preamble", "body", "done", "error" or "panic"
    cur_ebb,    \* the EBB whose instructions are being parsed
    line,       \* the line of the last item read
    defhist,    \* history: every call of def_entity, in order
    declared,   \* history: every preamble declaration read, with its data
    \* ---- parse_isa_specs ----
    seen_isa,     \* was there any `isa` command
    last_set_loc, \* location of the last `set` command since the last `isa`
    isas,         \* the ISAs built so far
    flag_builder, \* the shared settings builder, as the set of settings applied
    isa_spec,     \* the result of parse_isa_specs, or "running"
    prelude,      \* history: the command lines read
    \* ---- infer_typevar ----
    tv_ctx,     \* the Context of the call: the value table and the SourceMap
    tv_inst,    \* the opcode, the explicit controlling type and the value operands
    tv_ret,     \* the Result<Type> returned, or "pending"
    \* ---- comment gathering ----
    gathering_comments, \* Parser.gathering_comments
    gathered_comments,  \* Parser.gathered_comments: the texts, as the comments' numbers
    comments,           \* Parser.comments: the comments claimed and not taken
    lookahead,          \* TRUE iff Parser.lookahead is Some(token)
    lex_eof,            \* TRUE iff the lexer has returned None
    lex_count,          \* the number of comment tokens the lexer has returned
    cphase,             \* the parser's position: "test", "function", "list", "preamble", "body", "done", "error", "panic"
    from_test,          \* TRUE iff the entry point is parse_test (else parse_function)
    preamble_comments,  \* TestFile.preamble_comments
    details,            \* Details.comments of the functions parsed, in order
    centities,          \* the number of entities claimed for so far
    lexlog,             \* history: for every comment token, was gathering active when it was read
    claimlog,           \* history: every claim_gathered_comments call, with lex_count at the call
    func_kw,            \* history: lex_count when the `function` keyword of each function was the lookahead
    \* ---- signatures ----
    sig_text,     \* the text given to parse_signature, as its tokens
    sig_parsed,   \* parse_signature(sig_text), or "pending"
    sig_printed,  \* the parsed signature printed, as tokens, or "pending"
    sig_reparsed  \* parse_signature(sig_printed), or "pending"

fvars == <<func, isa, livein, worklist, fresult, ferr, fvisits>>
svars == <<sfunc, slayout, dest_ebbs, curr, pos, tlive, self_loop, spc, inserted, walklog>>
pvars == <<tables, locations, values, dfg_ebbs, layout, dfg_insts, aliases, perr, pphase,
           cur_ebb, line, defhist, declared>>
ivars == <<seen_isa, last_set_loc, isas, flag_builder, isa_spec, prelude>>
tvars == <<tv_ctx, tv_inst, tv_ret>>
cvars == <<gathering_comments, gathered_comments, comments, lookahead, lex_eof, lex_count,
           cphase, from_test, preamble_comments, details, centities, lexlog, claimlog, func_kw>>
gvars == <<sig_text, sig_parsed, sig_printed, sig_reparsed>>

(***************************************************************************)
(* Option<T> is a set with at most one element.                            *)
(***************************************************************************)
None == {}
Some(x) == {x}
Unwrap(o) == CHOOSE x \in o : TRUE

Range(s) == {s[i] : i \in 1..Len(s)}

(***************************************************************************)
(*                       CPU FLAGS VERIFIER                                *)
(***************************************************************************)

\* Bounds of the functions given to the verifier.
NumEbbs == 2
MaxInsts == 2

Ebbs == 1..NumEbbs

\* Values v0, v1, v2 and their types: v0 is iflags, v1 is fflags, v2 is i32.
FValues == {0, 1, 2}
value_type(v) == IF v = 0 THEN "iflags" ELSE IF v = 1 THEN "fflags" ELSE "i32"
is_flags(t) == t \in {"iflags", "fflags"}

\* BranchInfo, as returned by analyze_branch.
NotABranch == [kind |-> "NotABranch", dest |-> 0]
SingleDest(e) == [kind |-> "SingleDest", dest |-> e]
Table(jt) == [kind |-> "Table", dest |-> jt]

\* An instruction as the verifier sees it: results, value arguments, branch
\* info and what the encoding's operand constraints say about the flags
\* ("none": no legal encoding, "keep": clobbers_flags = false, "clobber").
MkInst(res, args, br, enc) == [res |-> res, args |-> args, br |-> br, enc |-> enc]

FInsts ==
    {   MkInst(<<0>>, <<>>, NotABranch, "keep"),        \* v0 = ifcmp ..
        MkInst(<<1>>, <<>>, NotABranch, "keep"),        \* v1 = ffcmp ..
        MkInst(<<>>, <<0>>, NotABranch, "none"),        \* trapif cc, v0
        MkInst(<<>>, <<1>>, NotABranch, "keep"),        \* trapff cc, v1
        MkInst(<<2>>, <<2>>, NotABranch, "clobber"),    \* v2 = iadd_imm v2, 1
        MkInst(<<2, 0>>, <<2>>, NotABranch, "clobber"), \* v2, v0 = iadd_cout ..
        MkInst(<<>>, <<2>>, Table(1), "keep") }         \* br_table v2, jt0
    \cup { MkInst(<<>>, <<0>>, SingleDest(e), "keep") : e \in Ebbs }  \* brif cc, v0, e
    \cup { MkInst(<<>>, <<>>, SingleDest(e), "keep") : e \in Ebbs }   \* jump e

SeqsUpTo(S, n) == UNION { [1..k -> S] : k \in 1..n }

\* The entries of the one jump table of the function.
JumpTableChoices == { <<e>> : e \in Ebbs } \cup { [i \in 1..NumEbbs |-> i] }

Functions ==
    [ ebbs : [Ebbs -> SeqsUpTo(FInsts, MaxInsts)],
      jump_tables : [{1} -> JumpTableChoices] ]

\* Destinations of a branch, from analyze_branch and the jump table.
BranchDests(f, inst) ==
    IF inst.br.kind = "SingleDest" THEN {inst.br.dest}
    ELSE IF inst.br.kind = "Table" THEN Range(f.jump_tables[inst.br.dest])
    ELSE {}

\* cfg.pred_iter(ebb): the EBBs holding a branch to ebb.
Preds(f, ebb) ==
    { p \in Ebbs : \E i \in 1..Len(f.ebbs[p]) : ebb \in BranchDests(f, f.ebbs[p][i]) }

\* The predecessors of ebb in the order pred_iter yields them.
RECURSIVE SortedSeq(_)
SortedSeq(S) ==
    Unwrap({ IF T = {} THEN <<>>
             ELSE Unwrap({ <<m>> \o SortedSeq(T \ {m}) :
                             m \in { x \in T : \A y \in T : x <= y } }) :
             T \in {S} })

(***************************************************************************)
(* Liveness of values by control-flow paths, independent of the verifier:  *)
(* v is live at a point when a path from the point reaches a use of v      *)
(* without first passing a definition of v.  Computed as the least fixed   *)
(* point of the set-valued backward data flow.                             *)
(***************************************************************************)
\* The EBB parameters are defined at the top of their EBB.
EbbParams(f, e) == IF "params" \in DOMAIN f THEN Range(f.params[e]) ELSE {}

RECURSIVE PathLiveBefore(_, _, _, _)
PathLiveAfter(f, L, e, i) ==
    (IF i < Len(f.ebbs[e]) THEN PathLiveBefore(f, L, e, i + 1) ELSE {})
    \cup UNION { L[d] : d \in BranchDests(f, f.ebbs[e][i]) }
PathLiveBefore(f, L, e, i) ==
    (PathLiveAfter(f, L, e, i) \ Range(f.ebbs[e][i].res)) \cup Range(f.ebbs[e][i].args)

RECURSIVE PathLiveFix(_, _)
PathLiveFix(f, L) ==
    Unwrap({ IF L2 = L THEN L ELSE PathLiveFix(f, L2) :
               L2 \in {[e \in DOMAIN f.ebbs |-> PathLiveBefore(f, L, e, 1) \ EbbParams(f, e)]} })

PathLivein(f) == PathLiveFix(f, [e \in DOMAIN f.ebbs |-> {}])

NoErr == [msg |-> "", a |-> None, b |-> None]
Err(m, a, b) == [msg |-> m, a |-> a, b |-> b]

\* A merge that lets the new value win instead of reporting a conflict.
merge_overwrite(a, b) == [ok |-> TRUE, live |-> Some(b), err |-> NoErr]

\* merge(a, b, inst): the merged value, or an error on conflicting values.
merge(a, b) ==
    IF a # None /\ Unwrap(a) # b
    THEN [ok |-> FALSE, live |-> a,
          err |-> Err("conflicting live CPU flags", a, Some(b))]
    ELSE [ok |-> TRUE, live |-> Some(b), err |-> NoErr]

\* Merge a sequence of values one after the other, stopping at the first error.
RECURSIVE MergeAll(_, _)
MergeAll(st, vals) ==
    IF ~st.ok \/ vals = <<>> THEN st
    ELSE MergeAll(merge(st.live, Head(vals)), Tail(vals))

\* The scan of the results of inst while `live` is live (flags.rs 92-99).
\* `live` stays the value captured by `if let Some(live) = live_val`.
RECURSIVE ScanResults(_, _, _)
ScanResults(live, cur, res) ==
    IF res = <<>> THEN [ok |-> TRUE, live |-> cur, err |-> NoErr]
    ELSE IF Head(res) = live THEN ScanResults(live, None, Tail(res))
    ELSE IF is_flags(value_type(Head(res)))
         THEN [ok |-> FALSE, live |-> cur,
               err |-> Err("clobbers live CPU flags", Some(Head(res)), Some(live))]
         ELSE ScanResults(live, cur, Tail(res))

\* An encoding check that does not ask whether a value is still live.
EncodingClobbers_any(encinfo, inst, live_val) == encinfo /\ inst.enc = "clobber"

\* An encoding check that never fires.
EncodingClobbers_never(encinfo, inst, live_val) == FALSE

\* Does the instruction have an encoding that clobbers the CPU flags while a
\* value is still live (flags.rs 102-105)?
EncodingClobbers(encinfo, inst, live_val) ==
    encinfo /\ inst.enc = "clobber" /\ live_val # None

\* The flags arguments of inst, in order.
FlagsArgs(inst) == SelectSeq(inst.args, LAMBDA v : is_flags(value_type(v)))

\* The live-in values of the destinations of inst, in the order visited.
DestLiveins(f, li, inst) ==
    LET dests == IF inst.br.kind = "SingleDest" THEN <<inst.br.dest>>
                 ELSE IF inst.br.kind = "Table" THEN f.jump_tables[inst.br.dest]
                 ELSE <<>>
        some == SelectSeq(dests, LAMBDA d : li[d] # None)
    IN [i \in 1..Len(some) |-> Unwrap(li[some[i]])]

\* One iteration of the loop of visit_ebb: instruction inst, live_val after it.
VisitInst(f, li, encinfo, inst, live_val) ==
    LET scan == IF live_val = None
                THEN [ok |-> TRUE, live |-> None, err |-> NoErr]
                ELSE ScanResults(Unwrap(live_val), live_val, inst.res)
    IN  IF ~scan.ok THEN scan
        ELSE IF live_val # None /\ EncodingClobbers(encinfo, inst, scan.live)
        THEN [ok |-> FALSE, live |-> scan.live,
              err |-> Err("encoding clobbers live CPU flags", live_val, None)]
        ELSE MergeAll(MergeAll(scan, FlagsArgs(inst)), DestLiveins(f, li, inst))

\* visit_ebb: walk the instructions of ebb backwards from instruction i.
RECURSIVE VisitFrom(_, _, _, _, _, _)
VisitFrom(f, li, encinfo, ebb, i, live_val) ==
    IF i = 0 THEN [ok |-> TRUE, live |-> live_val, err |-> NoErr]
    ELSE LET r == VisitInst(f, li, encinfo, f.ebbs[ebb][i], live_val)
         IN IF ~r.ok THEN r ELSE VisitFrom(f, li, encinfo, ebb, i - 1, r.live)

visit_ebb(f, li, encinfo, ebb) ==
    VisitFrom(f, li, encinfo, ebb, Len(f.ebbs[ebb]), None)

\* A write that resets the entries of the other EBBs.
set_livein_only(li, ebb, value) == [e \in DOMAIN li |-> IF e = ebb THEN value ELSE None]

\* self.livein[ebb] = value.into()
set_livein(li, ebb, value) == [li EXCEPT ![ebb] = value]

\* An insert that does not look for the member.
SparseInsert_always(w, e) == Append(w, e)

\* SparseSet::insert: a member is not inserted again.
SparseInsert(w, e) == IF e \in Range(w) THEN w ELSE Append(w, e)

RECURSIVE SparseInsertAll(_, _)
SparseInsertAll(w, es) ==
    IF es = <<>> THEN w ELSE SparseInsertAll(SparseInsert(w, Head(es)), Tail(es))


(***************************************************************************)
(*                         STACKMAP INSERTER                               *)
(***************************************************************************)

\* Bounds of the functions given to emit_stackmaps.
NumSEbbs == 2
MaxSInsts == 2

SEbbs == 1..NumSEbbs

\* Values v0, v1, v2 and their types: v0 is r64, v1 is r32, v2 is i32.
SValues == {0, 1, 2}
svalue_type(v) == IF v = 0 THEN "r64" ELSE IF v = 1 THEN "r32" ELSE "i32"
is_ref(t) == t \in {"r32", "r64"}

MkSInst(op, res, args, br) == [op |-> op, res |-> res, args |-> args, br |-> br]

SInsts ==
    {   MkSInst("call", <<>>, <<0>>, NotABranch),     \* call fn0(v0)
        MkSInst("call", <<1>>, <<>>, NotABranch),     \* v1 = call fn0()
        MkSInst("call", <<>>, <<2>>, NotABranch),     \* call fn0(v2)
        MkSInst("other", <<>>, <<0>>, NotABranch),    \* store v2, v0
        MkSInst("other", <<>>, <<1>>, NotABranch),    \* store v2, v1
        MkSInst("other", <<0>>, <<>>, NotABranch),    \* v0 = null.r64
        MkSInst("other", <<>>, <<>>, NotABranch),     \* return
        MkSInst("branch", <<>>, <<2>>, Table(1)) }    \* br_table v2, jt0
    \cup { MkSInst("branch", <<>>, <<2>>, SingleDest(e)) : e \in SEbbs }  \* brnz v2, e

SJumpTableChoices == { <<e>> : e \in SEbbs } \cup { [i \in 1..NumSEbbs |-> i] }

\* The parameters of the entry EBB; the other EBBs have none.
EntryParamChoices == { <<2>>, <<0, 2>> }

\* The values defined in f, one entry per definition.
RECURSIVE ConcatRes(_, _)
ConcatRes(insts, i) ==
    IF i > Len(insts) THEN <<>> ELSE insts[i].res \o ConcatRes(insts, i + 1)

RECURSIVE DefList(_, _)
DefList(f, e) ==
    IF e > Len(f.params) THEN <<>>
    ELSE f.params[e] \o ConcatRes(f.ebbs[e], 1) \o DefList(f, e + 1)

\* SSA form: one definition per value, and no value is live into the entry
\* EBB other than its parameters.
IsSSA(f) ==
    LET defs == DefList(f, 1)
    IN /\ \A i, j \in 1..Len(defs) : defs[i] = defs[j] => i = j
       /\ PathLivein(f)[1] = {}

SFunctions ==
    { f \in [ ebbs : [SEbbs -> SeqsUpTo(SInsts, MaxSInsts)],
              params : { [e \in SEbbs |-> IF e = 1 THEN p ELSE <<>>] : p \in EntryParamChoices },
              jump_tables : [{1} -> SJumpTableChoices] ] : IsSSA(f) }

\* An instruction in the layout: the instruction, the index it had in its
\* EBB when the pass started (0 for an inserted stackmap) and whether
\* update_encoding was called on it by the pass.
LayoutInst(inst, id) ==
    [op |-> inst.op, res |-> inst.res, args |-> inst.args, br |-> inst.br,
     id |-> id, enc |-> FALSE]

LayoutOf(f) ==
    [e \in DOMAIN f.ebbs |-> [i \in 1..Len(f.ebbs[e]) |-> LayoutInst(f.ebbs[e][i], i)]]

Stackmap(vals) == LayoutInst(MkSInst("stackmap", <<>>, vals, NotABranch), 0)

\* Cursor positions.
Nowhere == [at |-> "Nowhere", ebb |-> 0, idx |-> 0]
Before(e) == [at |-> "Before", ebb |-> e, idx |-> 0]
After(e) == [at |-> "After", ebb |-> e, idx |-> 0]
At(e, i) == [at |-> "At", ebb |-> e, idx |-> i]

\* Cursor::next_inst: the new position; it is on an instruction iff one is returned.
next_inst(lay, p) ==
    IF p.at = "Before"
    THEN IF Len(lay[p.ebb]) > 0 THEN At(p.ebb, 1) ELSE After(p.ebb)
    ELSE IF p.at = "At"
    THEN IF p.idx < Len(lay[p.ebb]) THEN At(p.ebb, p.idx + 1) ELSE After(p.ebb)
    ELSE p

\* Cursor::prev_inst.
prev_inst(lay, p) ==
    IF p.at = "After"
    THEN IF Len(lay[p.ebb]) > 0 THEN At(p.ebb, Len(lay[p.ebb])) ELSE Before(p.ebb)
    ELSE IF p.at = "At"
    THEN IF p.idx > 1 THEN At(p.ebb, p.idx - 1) ELSE Before(p.ebb)
    ELSE p

\* An insertion that takes the place of the instruction at i.
InsertAt_replace(seq, i, x) == SubSeq(seq, 1, i - 1) \o <<x>> \o SubSeq(seq, i + 1, Len(seq))

InsertAt(seq, i, x) == SubSeq(seq, 1, i - 1) \o <<x>> \o SubSeq(seq, i, Len(seq))

\* pos.ins().stackmap(..): insert before the instruction the cursor is at (or
\* at the end of the EBB); the cursor stays on the same instruction.
CursorInsert(lay, p, inst) ==
    IF p.at = "At"
    THEN [lay |-> [lay EXCEPT ![p.ebb] = InsertAt(@, p.idx, inst)],
          pos |-> At(p.ebb, p.idx + 1)]
    ELSE [lay |-> [lay EXCEPT ![p.ebb] = Append(@, inst)], pos |-> p]

\* A filter that takes every live value, whatever its type.
get_live_ref_values_all(tl) == tl

\* get_live_ref_values: the live values of a reference type, in tracker order.
get_live_ref_values(tl) == SelectSeq(tl, LAMBDA v : is_ref(svalue_type(v)))

\* An insertion that leaves the cursor on the stackmap.
ins_and_enc_stackmap_instr_no_restore(lay, p, live_ref_values) ==
    LET ins == CursorInsert(lay, p, Stackmap(live_ref_values))
        back == prev_inst(ins.lay, ins.pos)
        enc == IF back.at = "At"
               THEN [ins.lay EXCEPT ![back.ebb][back.idx].enc = TRUE]
               ELSE ins.lay
    IN [lay |-> enc, pos |-> back]

\* ins_and_enc_stackmap_instr: insert the stackmap, step back to it to
\* encode it, and restore the cursor.
ins_and_enc_stackmap_instr(lay, p, live_ref_values) ==
    LET ins == CursorInsert(lay, p, Stackmap(live_ref_values))
        back == prev_inst(ins.lay, ins.pos)
        enc == IF back.at = "At"
               THEN [ins.lay EXCEPT ![back.ebb][back.idx].enc = TRUE]
               ELSE ins.lay
    IN [lay |-> enc, pos |-> next_inst(enc, back)]

\* The live values at the top of ebb as the tracker reports them after
\* ebb_top and drop_dead_params: the values live before the first
\* instruction, dead parameters dropped.
TrackerEbbTop(f, ebb) == SortedSeq(PathLiveBefore(f, PathLivein(f), ebb, 1))

\* The tracker's list after process_inst and drop_dead on inst: the values
\* killed by inst are removed, its results are added unless they are dead.
\* An inserted stackmap is unknown to the liveness and changes nothing.
TrackerProcessInst(f, ebb, inst, tl) ==
    IF inst.id = 0 THEN tl
    ELSE LET keep == IF inst.id < Len(f.ebbs[ebb])
                     THEN PathLiveBefore(f, PathLivein(f), ebb, inst.id + 1)
                     ELSE {}
         IN SelectSeq(tl \o inst.res, LAMBDA v : v \in keep)

\* InstructionData::branch_destination: the destination of a single-destination
\* branch; None for every other instruction, a multi-destination branch
\* through a jump table included.
branch_destination(inst) ==
    IF inst.br.kind = "SingleDest" THEN Some(inst.br.dest) ELSE None

\* An insert that forgets what the set held.
HashSetInsert_replace(set, x) == {x}

\* dest_ebbs.insert(dest)
HashSetInsert(set, x) == set \cup {x}

\* A self-loop test that ignores what dest_ebbs holds.
is_self_loop_any(dest, ebb, dests) == dest = ebb

\* `dest == ebb && !dest_ebbs.contains(&ebb)`: the branch loops within ebb
\* and no stackmap was tried for it at the top.
is_self_loop(dest, ebb, dests) == dest = ebb /\ ebb \notin dests

\* A call test that takes only calls with arguments.
is_call_with_args(inst) == inst.op = "call" /\ inst.args # <<>>

is_call(inst) == inst.op = "call"

\* The condition on the live references under which a stackmap is inserted.
HasLiveRefs(live_ref_values) == live_ref_values # <<>>

\* A top-of-EBB insertion that does not ask whether ebb is a destination.
try_insert_savepoint_at_ebb_top_any(f, lay, p, dests, ins, ebb) ==
    LET tl == TrackerEbbTop(f, ebb)
        live_ref_values == get_live_ref_values(tl)
    IN  IF HasLiveRefs(live_ref_values)
        THEN LET r == ins_and_enc_stackmap_instr(lay, At(ebb, 1), live_ref_values)
             IN [lay |-> r.lay, pos |-> r.pos, tlive |-> tl,
                 inserted |-> Append(ins, [ebb |-> ebb, where |-> "top",
                                           args |-> live_ref_values, live |-> tl])]
        ELSE [lay |-> lay, pos |-> p, tlive |-> tl, inserted |-> ins]

\* try_insert_savepoint_at_ebb_top: the new layout, cursor, tracker list and
\* history.
try_insert_savepoint_at_ebb_top(f, lay, p, dests, ins, ebb) ==
    LET tl == TrackerEbbTop(f, ebb)
        live_ref_values == get_live_ref_values(tl)
    IN  IF ebb \in dests /\ HasLiveRefs(live_ref_values)
        THEN LET r == ins_and_enc_stackmap_instr(lay, At(ebb, 1), live_ref_values)
             IN [lay |-> r.lay, pos |-> r.pos, tlive |-> tl,
                 inserted |-> Append(ins, [ebb |-> ebb, where |-> "top",
                                           args |-> live_ref_values, live |-> tl])]
        ELSE [lay |-> lay, pos |-> p, tlive |-> tl, inserted |-> ins]

(***************************************************************************)
(* The text parser (lib/reader/src/parser.rs) and its SourceMap             *)
(* (lib/reader/src/sourcemap.rs).                                           *)
(*                                                                          *)
(* The input is a function text with one item per line: line 1 is the       *)
(* function header, then preamble declarations, then EBB headers,           *)
(* instructions and alias lines, then the closing brace.  An entity is the  *)
(* pair <<kind, number>>; a textual name is the same pair as produced by    *)
(* the lexer's split_entity_name.                                           *)
(***************************************************************************)
MaxHandle == 2      \* preamble handles are ss0..ss2, gv0..gv2, ...
MaxValue == 1       \* values are v0..v1
MaxEbb == 1         \* EBBs are ebb0..ebb1
MaxParams == 2      \* an EBB header has at most two parameters
MaxItems == 4       \* lines between the function header and the closing brace

Handles == 0..MaxHandle
PValues == 0..MaxValue
PEbbs == 0..MaxEbb

\* The reserved_value() of an entity reference type (no entity).
Reserved == 0 - 1

\* A table entry: d is the kind/name, n a size or count, r a referenced
\* entity number and es the entries of a jump table.
Data(d, n, r, es) == [d |-> d, n |-> n, r |-> r, es |-> es]

TableKinds == {"ss", "gv", "heap", "sig", "fn", "jt"}

NoPErr == [msg |-> "", ent |-> <<>>, line |-> 0]
PErr(loc, m, e) == [msg |-> m, ent |-> e, line |-> loc]
POk(st) == st.err = NoPErr
Fail(st, loc, m, e) == [st EXCEPT !.err = PErr(loc, m, e)]

\* -------------------------- sourcemap.rs --------------------------------

contains(locs, ent) == ent \in DOMAIN locs

LookupKinds == {"v", "ebb", "ss", "gv", "heap", "sig", "fn", "jt"}

lookup_str_by_table(st, name) ==
    IF name[1] \in TableKinds /\ name[2] < Len(st.tables[name[1]])
    THEN Some(name)
    ELSE IF name[1] \in LookupKinds /\ contains(st.locations, name) THEN Some(name) ELSE None

\* lookup_str: name is split_entity_name's (prefix, number) pair.
lookup_str(st, name) ==
    IF name[1] \in LookupKinds
    THEN IF ~contains(st.locations, name) THEN None ELSE Some(name)
    ELSE None

location(locs, ent) == IF ent \in DOMAIN locs THEN Some(locs[ent]) ELSE None

def_entity_always_ok(st, ent, loc) ==
    [st EXCEPT !.locations = [e \in DOMAIN st.locations \cup {ent} |->
                                 IF e = ent THEN loc ELSE st.locations[e]],
               !.hist = Append(@, [ent |-> ent, loc |-> loc])]

\* def_entity: HashMap::insert returns the old location when the key was
\* present (and stores the new one); that is the duplicate.
def_entity(st, ent, loc) ==
    LET old == location(st.locations, ent)
        ins == [st EXCEPT !.locations = [e \in DOMAIN st.locations \cup {ent} |->
                                            IF e = ent THEN loc ELSE st.locations[e]],
                          !.hist = Append(@, [ent |-> ent, loc |-> loc])]
    IN  IF old # None THEN Fail(ins, loc, "duplicate entity", ent) ELSE ins

def_value(st, v, loc) == def_entity(st, <<"v", v>>, loc)
def_ebb(st, ebb, loc) == def_entity(st, <<"ebb", ebb>>, loc)
def_ss(st, ss, loc) == def_entity(st, <<"ss", ss>>, loc)
def_gv(st, gv, loc) == def_entity(st, <<"gv", gv>>, loc)
def_heap(st, heap, loc) == def_entity(st, <<"heap", heap>>, loc)
def_sig(st, sig, loc) == def_entity(st, <<"sig", sig>>, loc)
def_fn(st, fn, loc) == def_entity(st, <<"fn", fn>>, loc)
def_jt(st, jt, loc) == def_entity(st, <<"jt", jt>>, loc)

\* ------------------------ parser.rs: Context ----------------------------

FillerSS == Data("spill_slot", 0, Reserved, <<>>)
FillerGV == Data("globalsym", 0, Reserved, <<>>)
FillerHeap == Data("static", 0, Reserved, <<>>)
FillerSig == Data("fast", 0, Reserved, <<>>)
FillerFn == Data("", 0, Reserved, <<>>)
FillerJT == Data("jt", 0, Reserved, <<>>)

Pad_appends(tab, k, filler) == tab \o [i \in 1..(k + 1) |-> filler]

\* `while table.next_key().index() <= k.index() { table.push(filler) }`
Pad(tab, k, filler) ==
    IF Len(tab) > k THEN tab ELSE tab \o [i \in 1..(k + 1 - Len(tab)) |-> filler]

\* Pad, then `table[k] = data`.
PadAndStore(st, kind, k, data, filler) ==
    [st EXCEPT !.tables[kind] = [Pad(@, k, filler) EXCEPT ![k + 1] = data]]

add_ss(st, ss, data, loc) == def_ss(PadAndStore(st, "ss", ss, data, FillerSS), ss, loc)
add_gv(st, gv, data, loc) == def_gv(PadAndStore(st, "gv", gv, data, FillerGV), gv, loc)
add_heap(st, heap, data, loc) == def_heap(PadAndStore(st, "heap", heap, data, FillerHeap), heap, loc)
add_sig(st, sig, data, loc) == def_sig(PadAndStore(st, "sig", sig, data, FillerSig), sig, loc)
add_fn(st, fn, data, loc) == def_fn(PadAndStore(st, "fn", fn, data, FillerFn), fn, loc)
add_jt(st, jt, data, loc) == def_jt(PadAndStore(st, "jt", jt, data, FillerJT), jt, loc)

check_sig(st, sig, loc) ==
    IF ~contains(st.locations, <<"sig", sig>>)
    THEN Fail(st, loc, "undefined signature", <<"sig", sig>>)
    ELSE st

check_ss(st, ss, loc) ==
    IF ~contains(st.locations, <<"ss", ss>>)
    THEN Fail(st, loc, "undefined stack slot", <<"ss", ss>>)
    ELSE st

check_gv(st, gv, loc) ==
    IF ~contains(st.locations, <<"gv", gv>>)
    THEN Fail(st, loc, "undefined global variable", <<"gv", gv>>)
    ELSE st

check_heap(st, heap, loc) ==
    IF ~contains(st.locations, <<"heap", heap>>)
    THEN Fail(st, loc, "undefined heap", <<"heap", heap>>)
    ELSE st

check_fn(st, fn, loc) ==
    IF ~contains(st.locations, <<"fn", fn>>)
    THEN Fail(st, loc, "undefined function", <<"fn", fn>>)
    ELSE st

\* A check that takes every jump table for defined.
check_jt_always_ok(st, jt, loc) == st

check_jt(st, jt, loc) ==
    IF ~contains(st.locations, <<"jt", jt>>)
    THEN Fail(st, loc, "undefined jump table", <<"jt", jt>>)
    ELSE st

\* add_ebb: make_ebb until the number exists, append to the layout, define.
add_ebb(st, ebb, loc) ==
    def_ebb([st EXCEPT !.ebbs = Pad(@, ebb, <<>>),
                       !.layout = Append(@, ebb)], ebb, loc)

\* ------------------------ the data flow graph ---------------------------

PTypes == {"i32", "f32"}
IntTypes == {"i8", "i16", "i32", "i64"}

\* make_invalid_value_for_parser: the placeholder of a value number that has
\* been seen but not defined.
VInvalid == [k |-> "invalid", ty |-> "VOID", orig |-> Reserved]

dfg_value_type(vals, v) == vals[v + 1].ty

value_is_valid_for_parser(vals, v) ==
    /\ vals[v + 1].k # "invalid"
    /\ ~(vals[v + 1].k = "alias" /\ vals[v + 1].ty = "VOID")

append_ebb_param_for_parser(st, ebb, t, v) ==
    [st EXCEPT !.values[v + 1] = [k |-> "param", ty |-> t, orig |-> Reserved],
               !.ebbs[ebb + 1] = Append(@, v)]

\* The alias `dest -> src`: dest becomes an alias of src, with src's type
\* when src is a value of the table already.
make_value_alias_for_parser(st, src, dest) ==
    LET ty == IF src < Len(st.values) THEN dfg_value_type(st.values, src) ELSE "VOID"
    IN  [st EXCEPT !.values[dest + 1] = [k |-> "alias", ty |-> ty, orig |-> src]]

\* The fixed results of the instruction take the given value numbers; a
\* result with no number given is a new value.  Returns the table.
RECURSIVE make_inst_results_for_parser(_, _, _, _, _)
make_inst_results_for_parser(vals, ctrl_typevar, results, num_results, i) ==
    IF i > num_results THEN vals
    ELSE LET rd == [k |-> "inst", ty |-> ctrl_typevar, orig |-> Reserved]
         IN  make_inst_results_for_parser(
                 IF i <= Len(results) THEN [vals EXCEPT ![results[i] + 1] = rd]
                                      ELSE Append(vals, rd),
                 ctrl_typevar, results, num_results, i + 1)

\* dfg.inst_results(inst) after make_inst_results_for_parser.
inst_results(vals, results, num_results) ==
    [i \in 1..num_results |-> IF i <= Len(results) THEN results[i]
                              ELSE Len(vals) + (i - Len(results)) - 1]

\* Follow the alias edges from v: the value the chain ends in, or None when
\* the walk does not end within the number of values.
RECURSIVE maybe_resolve_aliases(_, _, _)
maybe_resolve_aliases(vals, v, fuel) ==
    IF v < 0 \/ v >= Len(vals) \/ vals[v + 1].k # "alias" THEN Some(v)
    ELSE IF fuel = 0 THEN None
    ELSE maybe_resolve_aliases(vals, vals[v + 1].orig, fuel - 1)

set_alias_type_for_parser(vals, v) ==
    LET r == maybe_resolve_aliases(vals, v, Len(vals))
    IN  IF r = None THEN [ok |-> FALSE, vals |-> vals]
        ELSE LET t == Unwrap(r)
                 ty == IF t >= 0 /\ t < Len(vals) THEN dfg_value_type(vals, t) ELSE "VOID"
             IN  [ok |-> TRUE, vals |-> [vals EXCEPT ![v + 1].ty = ty]]

\* Opcode::constraints() of the opcodes of the model.
constraints(op) ==
    CASE op = "iconst"   -> [is_polymorphic |-> TRUE, use_typevar_operand |-> FALSE,
                             ctrl_typeset |-> Some(IntTypes), num_results |-> 1]
      [] op = "iadd_imm" -> [is_polymorphic |-> TRUE, use_typevar_operand |-> TRUE,
                             ctrl_typeset |-> Some(IntTypes), num_results |-> 1]
      [] op \in {"stack_load", "global_value", "heap_addr", "func_addr"}
                         -> [is_polymorphic |-> TRUE, use_typevar_operand |-> FALSE,
                             ctrl_typeset |-> Some(IntTypes), num_results |-> 1]
      [] op \in {"br_table", "call_indirect"}
                         -> [is_polymorphic |-> TRUE, use_typevar_operand |-> TRUE,
                             ctrl_typeset |-> Some(IntTypes), num_results |-> 0]
      [] OTHER           -> [is_polymorphic |-> FALSE, use_typevar_operand |-> FALSE,
                             ctrl_typeset |-> None, num_results |-> 0]

\* ------------------------ parser.rs: Parser -----------------------------

\* The loop of parse_extended_basic_block and parse_ebb_param that makes
\* every value number of a result list exist.
RECURSIVE PadResults(_, _, _)
PadResults(vals, results, i) ==
    IF i > Len(results) THEN vals
    ELSE PadResults(Pad(vals, results[i], VInvalid), results, i + 1)

parse_ebb_param(st, ebb, v, t, loc) ==
    LET padded == [st EXCEPT !.values = Pad(@, v, VInvalid)]
    IN  def_value(append_ebb_param_for_parser(padded, ebb, t, v), v, loc)

RECURSIVE parse_ebb_params(_, _, _, _, _)
parse_ebb_params(st, ebb, params, i, loc) ==
    IF i > Len(params) \/ ~POk(st) THEN st
    ELSE parse_ebb_params(parse_ebb_param(st, ebb, params[i].v, params[i].ty, loc),
                          ebb, params, i + 1, loc)

parse_value_alias_no_def(st, results, dest, loc) ==
    IF Len(results) # 1 THEN Fail(st, loc, "wrong number of aliases", <<>>)
    ELSE [make_value_alias_for_parser(st, dest, results[1]) EXCEPT
              !.aliases = Append(@, results[1])]

parse_value_alias(st, results, dest, loc) ==
    IF Len(results) # 1 THEN Fail(st, loc, "wrong number of aliases", <<>>)
    ELSE LET d == def_value(make_value_alias_for_parser(st, dest, results[1]), results[1], loc)
         IN  IF POk(d) THEN [d EXCEPT !.aliases = Append(@, results[1])] ELSE d

\* infer_typevar without the check of the type against the typeset.
infer_typevar_no_typeset_check(st, opcode, explicit_ctrl_type, args, loc) ==
    LET c == constraints(opcode)
    IN  IF explicit_ctrl_type # None
        THEN [err |-> NoPErr, ty |-> Unwrap(explicit_ctrl_type)]
        ELSE IF c.use_typevar_operand
        THEN LET ctrl_src_value == args[1]
             IN  IF ~contains(st.locations, <<"v", ctrl_src_value>>)
                 THEN [err |-> PErr(loc, "can't infer, not yet defined", <<"v", ctrl_src_value>>),
                       ty |-> "VOID"]
                 ELSE IF ~value_is_valid_for_parser(st.values, ctrl_src_value)
                 THEN [err |-> PErr(loc, "can't infer, not yet resolved", <<"v", ctrl_src_value>>),
                       ty |-> "VOID"]
                 ELSE [err |-> NoPErr, ty |-> dfg_value_type(st.values, ctrl_src_value)]
        ELSE IF c.is_polymorphic
        THEN [err |-> PErr(loc, "type variable required for polymorphic opcode", <<>>),
              ty |-> "VOID"]
        ELSE [err |-> NoPErr, ty |-> "VOID"]

\* infer_typevar: the controlling type, or the error.
infer_typevar(st, opcode, explicit_ctrl_type, args, loc) ==
    LET c == constraints(opcode)
        inferred ==
            IF explicit_ctrl_type # None
            THEN [err |-> NoPErr, ty |-> Unwrap(explicit_ctrl_type)]
            ELSE IF c.use_typevar_operand
            THEN LET ctrl_src_value == args[1]
                 IN  IF ~contains(st.locations, <<"v", ctrl_src_value>>)
                     THEN [err |-> PErr(loc, "can't infer, not yet defined", <<"v", ctrl_src_value>>),
                           ty |-> "VOID"]
                     ELSE IF ~value_is_valid_for_parser(st.values, ctrl_src_value)
                     THEN [err |-> PErr(loc, "can't infer, not yet resolved", <<"v", ctrl_src_value>>),
                           ty |-> "VOID"]
                     ELSE [err |-> NoPErr, ty |-> dfg_value_type(st.values, ctrl_src_value)]
            ELSE IF c.is_polymorphic
            THEN [err |-> PErr(loc, "type variable required for polymorphic opcode", <<>>),
                  ty |-> "VOID"]
            ELSE [err |-> NoPErr, ty |-> "VOID"]
    IN  IF inferred.err # NoPErr THEN inferred
        ELSE IF c.ctrl_typeset # None
        THEN IF inferred.ty \notin Unwrap(c.ctrl_typeset)
             THEN [err |-> PErr(loc, "not a valid typevar", <<>>), ty |-> inferred.ty]
             ELSE inferred
        ELSE IF inferred.ty # "VOID"
        THEN [err |-> PErr(loc, "does not take a typevar", <<>>), ty |-> inferred.ty]
        ELSE inferred

RECURSIVE DefResults(_, _, _, _)
DefResults(st, results, i, loc) ==
    IF i > Len(results) \/ ~POk(st) THEN st
    ELSE DefResults(def_value(st, results[i], loc), results, i + 1, loc)

\* parse_inst_operands: the entity an instruction refers to is looked up in
\* the map; the destination of a jump is taken as it is written.
parse_inst_operands(st, l, loc) ==
    IF l.ref = None THEN st
    ELSE LET kind == Unwrap(l.ref)[1]
             n == Unwrap(l.ref)[2]
         IN  CASE kind = "ss"   -> check_ss(st, n, loc)
               [] kind = "gv"   -> check_gv(st, n, loc)
               [] kind = "heap" -> check_heap(st, n, loc)
               [] kind = "sig"  -> check_sig(st, n, loc)
               [] kind = "fn"   -> check_fn(st, n, loc)
               [] kind = "jt"   -> check_jt(st, n, loc)

parse_instruction(st, results, l, ebb, loc) ==
    LET s0 == DefResults(st, results, 1, loc)
        s1 == IF POk(s0) THEN parse_inst_operands(s0, l, loc) ELSE s0
    IN  IF ~POk(s1) THEN s1
        ELSE LET tv == infer_typevar(s1, l.op, l.ty, l.args, loc)
             IN  IF tv.err # NoPErr THEN [s1 EXCEPT !.err = tv.err]
                 ELSE LET inst == Len(s1.insts)
                          num_results == constraints(l.op).num_results
                          s2 == [s1 EXCEPT
                                   !.values = make_inst_results_for_parser(@, tv.ty, results,
                                                                           num_results, 1),
                                   !.insts = Append(@, [id |-> inst, ebb |-> ebb, op |-> l.op,
                                                        ty |-> tv.ty, args |-> l.args,
                                                        dest |-> l.dest, ref |-> l.ref,
                                                        res |-> inst_results(s1.values, results,
                                                                             num_results)])]
                          s3 == def_entity(s2, <<"inst", inst>>, loc)
                      IN  IF ~POk(s3)
                          THEN Fail(s3, loc, "panic: duplicate inst references created", <<"inst", inst>>)
                          ELSE IF Len(results) # num_results
                          THEN Fail(s3, loc, "instruction produces a different number of result values", <<>>)
                          ELSE s3

\* A declaration whose inline signature always takes the first key.
parse_function_decl_first_key(st, name, inline, sigdata, sig, loc) ==
    IF inline
    THEN LET sigref == 0
             imp == [st EXCEPT !.tables.sig = Append(@, sigdata)]
             d == def_entity(imp, <<"sig", sigref>>, loc)
         IN  [st |-> IF POk(d) THEN d
                     ELSE Fail(d, loc, "panic: duplicate SigRef entities created", <<"sig", sigref>>),
              data |-> Data(name, 0, sigref, <<>>)]
    ELSE [st |-> check_sig(st, sig, loc), data |-> Data(name, 0, sig, <<>>)]

\* parse_function_decl: an inline signature is imported and defined; a
\* signature reference is checked.  Returns the state and the ExtFuncData.
parse_function_decl(st, name, inline, sigdata, sig, loc) ==
    IF inline
    THEN LET sigref == Len(st.tables.sig)
             imp == [st EXCEPT !.tables.sig = Append(@, sigdata)]
             d == def_entity(imp, <<"sig", sigref>>, loc)
         IN  [st |-> IF POk(d) THEN d
                     ELSE Fail(d, loc, "panic: duplicate SigRef entities created", <<"sig", sigref>>),
              data |-> Data(name, 0, sigref, <<>>)]
    ELSE [st |-> check_sig(st, sig, loc), data |-> Data(name, 0, sig, <<>>)]

\* layout.ebb_insts(ebb) for every EBB of the layout, in layout order.
RECURSIVE LayoutInsts(_, _)
LayoutInsts(st, i) ==
    IF i > Len(st.layout) THEN <<>>
    ELSE SelectSeq(st.insts, LAMBDA x : x.ebb = st.layout[i]) \o LayoutInsts(st, i + 1)

UndefinedArgs_none(st, inst) == <<>>

UndefinedArgs(st, inst) == SelectSeq(inst.args, LAMBDA v : ~contains(st.locations, <<"v", v>>))

\* The first loop of parse_function_body after the EBBs.
RECURSIVE check_operands(_, _, _)
check_operands(st, li, i) ==
    IF i > Len(li) THEN st
    ELSE IF UndefinedArgs(st, li[i]) # <<>>
    THEN Fail(st, st.locations[<<"inst", li[i].id>>], "undefined operand value",
              <<"v", UndefinedArgs(st, li[i])[1]>>)
    ELSE check_operands(st, li, i + 1)

\* The second loop of parse_function_body.
RECURSIVE resolve_aliases_pass_no_cycle_check(_, _)
resolve_aliases_pass_no_cycle_check(st, i) ==
    IF i > Len(st.aliases) THEN st
    ELSE resolve_aliases_pass_no_cycle_check(
             [st EXCEPT !.values = set_alias_type_for_parser(st.values, st.aliases[i]).vals],
             i + 1)

RECURSIVE resolve_aliases_pass(_, _)
resolve_aliases_pass(st, i) ==
    IF i > Len(st.aliases) THEN st
    ELSE LET r == set_alias_type_for_parser(st.values, st.aliases[i])
         IN  IF ~r.ok
             THEN Fail(st, st.locations[<<"v", st.aliases[i]>>], "alias cycle involving",
                       <<"v", st.aliases[i]>>)
             ELSE resolve_aliases_pass([st EXCEPT !.values = r.vals], i + 1)

parse_function_body_end(st) ==
    LET c == check_operands(st, LayoutInsts(st, 1), 1)
    IN  IF POk(c) THEN resolve_aliases_pass(c, 1) ELSE c

\* ------------------------------ inputs ----------------------------------

SSData == {Data("spill_slot", 0, Reserved, <<>>), Data("incoming_arg", 8, Reserved, <<>>)}
GVData == {Data("vmctx", 0, Reserved, <<>>), Data("deref", 0, 0, <<>>)}
HeapData == {Data("static", 0, Reserved, <<>>), Data("static", 0, 0, <<>>)}
SigData == {Data("system_v", 1, Reserved, <<>>)}
InlineSig == Data("fast", 1, Reserved, <<>>)
JTData == {Data("jt", 0, Reserved, <<0>>)}

\* The parameter lists of an EBB header.
ParamLists ==
    UNION { [1..k -> [v : PValues, ty : {"i32"}]] : k \in 0..MaxParams }

\* The instruction lines: opcode, explicit controlling type, result list,
\* value operands and destination EBB.
InstLine(op, ty, res, args, dest) ==
    [op |-> op, ty |-> ty, res |-> res, args |-> args, dest |-> dest, ref |-> None]

\* The instruction lines that refer to an entity of the preamble, with an
\* instruction that defines v0, the jumps and a return.
MaxRef == 1

RefLine(op, ty, res, args, ref) ==
    [op |-> op, ty |-> ty, res |-> res, args |-> args, dest |-> Reserved, ref |-> Some(ref)]

RefLines ==
    { RefLine("stack_load", Some("i32"), <<v>>, <<>>, <<"ss", n>>) : v \in PValues, n \in 0..MaxRef }
    \cup { RefLine("global_value", Some("i32"), <<v>>, <<>>, <<"gv", n>>) :
             v \in PValues, n \in 0..MaxRef }
    \cup { RefLine("heap_addr", Some("i32"), <<v>>, <<0>>, <<"heap", n>>) :
             v \in PValues, n \in 0..MaxRef }
    \cup { RefLine("func_addr", Some("i32"), <<v>>, <<>>, <<"fn", n>>) :
             v \in PValues, n \in 0..MaxRef }
    \cup { RefLine("call_indirect", None, <<>>, <<0>>, <<"sig", n>>) : n \in 0..MaxRef }
    \cup { RefLine("br_table", None, <<>>, <<0>>, <<"jt", n>>) : n \in 0..MaxRef }
    \cup { InstLine("iconst", Some("i32"), <<0>>, <<>>, Reserved) }
    \cup { InstLine("return", None, <<>>, <<>>, Reserved) }
    \cup { InstLine("jump", None, <<>>, <<>>, e) : e \in PEbbs }

InstLines ==
    { InstLine("iconst", Some("i32"), <<v>>, <<>>, Reserved) : v \in PValues }
    \cup { InstLine("iconst", t, <<0>>, <<>>, Reserved) : t \in {None, Some("f32")} }
    \cup { InstLine("iconst", Some("i32"), <<v, MaxValue>>, <<>>, Reserved) : v \in PValues }
    \cup { InstLine("iadd_imm", t, <<v>>, <<w>>, Reserved) :
             v \in PValues, w \in PValues, t \in {None, Some("i32")} }
    \cup { InstLine("return", None, <<>>, a, Reserved) : a \in {<<>>} \cup {<<v>> : v \in PValues} }
    \cup { InstLine("jump", None, <<>>, <<>>, e) : e \in PEbbs }

AliasLines ==
    { [res |-> <<v>>, dest |-> w] : v \in PValues, w \in PValues }
    \cup { [res |-> <<0, MaxValue>>, dest |-> 0] }

EmptyTables == [k \in TableKinds |-> <<>>]

IdleP ==
    /\ tables = EmptyTables
    /\ locations = <<>>
    /\ values = <<>>
    /\ dfg_ebbs = <<>>
    /\ layout = <<>>
    /\ dfg_insts = <<>>
    /\ aliases = <<>>
    /\ defhist = <<>>
    /\ perr = NoPErr
    /\ pphase = "done"
    /\ cur_ebb = Reserved
    /\ declared = <<>>
    /\ line = 1

(***************************************************************************)
(* The prelude of a test file: Parser::parse_isa_specs                      *)
(* (lib/reader/src/parser.rs).  The input is a sequence of `set` and `isa`  *)
(* command lines, one per line of the file, ended by any other token.       *)
(***************************************************************************)
MaxPrelude == 4     \* command lines of the prelude

\* isa::lookup: the ISA is built in, known but not built in, or unknown.
isa_lookup(isa_name) ==
    CASE isa_name = "riscv" -> "Ok"
      [] isa_name = "arm32" -> "Unsupported"
      [] OTHER -> "Unknown"

\* isaspec::parse_options on the words of a line: an error for a word that
\* is no setting of the builder, else the builder with the words applied.
parse_options(words, builder) ==
    IF "bad" \in words THEN [ok |-> FALSE, builder |-> builder]
    ELSE [ok |-> TRUE, builder |-> builder \cup words]

SetLines == { [cmd |-> "set", name |-> "", words |-> {w}] : w \in {"enable_float=false", "bad"} }

IsaLines ==
    { [cmd |-> "isa", name |-> "riscv", words |-> ws] : ws \in {{}, {"supports_m=true"}, {"bad"}} }
    \cup { [cmd |-> "isa", name |-> n, words |-> {}] : n \in {"", "arm32", "bogus"} }

\* An ISA that is given none of the shared settings.
finish_without_flags(name, isa_builder, shared) ==
    [name |-> name, flags |-> {}, settings |-> isa_builder]

\* isa_builder.finish(settings::Flags::new(&flag_builder)): the ISA with a
\* copy of the shared settings as they are now and its own settings.
finish(name, isa_builder, shared) ==
    [name |-> name, flags |-> shared, settings |-> isa_builder]

IsaRunning == [kind |-> "running", msg |-> "", line |-> 0, flags |-> {}, isas |-> <<>>]
IsaErr(loc, m) == [kind |-> "Err", msg |-> m, line |-> loc, flags |-> {}, isas |-> <<>>]
IsaSpecNone(flags) == [kind |-> "None", msg |-> "", line |-> 0, flags |-> flags, isas |-> <<>>]
IsaSpecSome(list) == [kind |-> "Some", msg |-> "", line |-> 0, flags |-> {}, isas |-> list]

IdleI ==
    /\ seen_isa = FALSE
    /\ last_set_loc = None
    /\ isas = <<>>
    /\ flag_builder = {}
    /\ isa_spec = IsaSpecNone({})
    /\ prelude = <<>>

\* ----------------------- calls of infer_typevar -------------------------

MaxTvValue == 1

TvValues == 0..MaxTvValue

TvLoc == 1

\* The entries a value table holds when an instruction is parsed.
TvValueData ==
    {VInvalid}
    \cup { [k |-> "inst", ty |-> t, orig |-> Reserved] : t \in PTypes }
    \cup { [k |-> "alias", ty |-> t, orig |-> o] : t \in {"VOID", "i32"}, o \in TvValues }

\* The contexts: a defined instruction result or alias is in the map (its
\* def_value came with it); a placeholder is in the map when it is a result
\* of the instruction being parsed; an alias has the type its target had
\* when the alias line was read, or VOID.
TvContexts ==
    { c \in [values : [1..(MaxTvValue + 1) -> TvValueData],
             defined : SUBSET TvValues] :
        /\ \A v \in TvValues :
             c.values[v + 1].k # "invalid" => v \in c.defined
        /\ \A v \in TvValues :
             c.values[v + 1].k = "alias" =>
                c.values[v + 1].ty \in {"VOID", c.values[c.values[v + 1].orig + 1].ty} }

\* The instructions: the operand may be a value number beyond the table.
TvInsts ==
    [opcode : {"iconst", "iadd_imm", "return"},
     explicit_ctrl_type : {None} \cup {Some(t) : t \in PTypes},
     args : { <<w>> : w \in 0..(MaxTvValue + 1) }]

TvPending == [err |-> NoPErr, ty |-> "pending"]

\* The part of the parser state infer_typevar reads.
TvState ==
    [values |-> tv_ctx.values,
     locations |-> [e \in { <<"v", v>> : v \in tv_ctx.defined } |-> TvLoc]]

IdleT ==
    /\ tv_ctx = [values |-> <<>>, defined |-> {}]
    /\ tv_inst = [opcode |-> "return", explicit_ctrl_type |-> None, args |-> <<>>]
    /\ tv_ret = [err |-> NoPErr, ty |-> "VOID"]

\* --------------------- parser.rs: comment gathering ---------------------

MaxGap == 2
MaxLexed == 4
MaxClaims == 6

Gaps == 0..MaxGap

\* The part of the Parser the comment functions work on.
CState(g, gd, cs, la, eof, n, ll, cl, pn) ==
    [gathering |-> g, gathered |-> gd, comments |-> cs, lookahead |-> la, eof |-> eof,
     count |-> n, lexlog |-> ll, claimlog |-> cl, panic |-> pn]

\* token(): when there is no lookahead, the lexer is read up to the next
\* token that is not a comment, or to the end of the text; it yields n
\* comments first.  A comment is pushed only while gathering.
token(st, n, eof) ==
    IF st.lookahead \/ st.eof THEN st
    ELSE LET texts == [i \in 1..n |-> st.count + i]
         IN  [st EXCEPT !.gathered = IF st.gathering THEN @ \o texts ELSE @,
                        !.lexlog = @ \o [i \in 1..n |-> st.gathering],
                        !.count = @ + n,
                        !.lookahead = ~eof,
                        !.eof = eof]

\* consume(): the lookahead token is taken.
consume(st) == [st EXCEPT !.lookahead = FALSE]

\* start_gathering_comments, with its two debug assertions.
start_gathering_comments(st) ==
    IF st.gathering \/ st.gathered # <<>>
    THEN [st EXCEPT !.panic = TRUE]
    ELSE [st EXCEPT !.gathering = TRUE]

\* A claim that leaves gathering switched on.
claim_gathered_comments_keeps_gathering(st, entity) ==
    IF ~st.gathering
    THEN [st EXCEPT !.panic = TRUE]
    ELSE [st EXCEPT
            !.comments = @ \o [i \in 1..Len(st.gathered) |->
                                  [entity |-> entity, text |-> st.gathered[i]]],
            !.gathered = <<>>,
            !.claimlog = Append(@, [entity |-> entity, upto |-> st.count])]

claim_gathered_comments_no_drain(st, entity) ==
    IF ~st.gathering
    THEN [st EXCEPT !.panic = TRUE]
    ELSE [st EXCEPT
            !.comments = @ \o [i \in 1..Len(st.gathered) |->
                                  [entity |-> entity, text |-> st.gathered[i]]],
            !.gathering = FALSE,
            !.claimlog = Append(@, [entity |-> entity, upto |-> st.count])]

\* claim_gathered_comments: the buffer is drained into Parser.comments with
\* the entity, and gathering stops.
claim_gathered_comments(st, entity) ==
    IF ~st.gathering
    THEN [st EXCEPT !.panic = TRUE]
    ELSE [st EXCEPT
            !.comments = @ \o [i \in 1..Len(st.gathered) |->
                                  [entity |-> entity, text |-> st.gathered[i]]],
            !.gathered = <<>>,
            !.gathering = FALSE,
            !.claimlog = Append(@, [entity |-> entity, upto |-> st.count])]

\* take_comments: returns Parser.comments and leaves it empty.
take_comments(st) ==
    [st |-> IF st.gathering THEN [st EXCEPT !.panic = TRUE] ELSE [st EXCEPT !.comments = <<>>],
     taken |-> st.comments]

AnyEntityFunction == <<"function", 0>>

IdleC ==
    /\ gathering_comments = FALSE
    /\ gathered_comments = <<>>
    /\ comments = <<>>
    /\ lookahead = FALSE
    /\ lex_eof = FALSE
    /\ lex_count = 0
    /\ cphase = "done"
    /\ from_test = FALSE
    /\ preamble_comments = <<>>
    /\ details = <<>>
    /\ centities = 0
    /\ lexlog = <<>>
    /\ claimlog = <<>>
    /\ func_kw = <<>>

\* ---------------------- parser.rs: parse_signature ----------------------

MaxFlags == 2

SigTypes == {"i8", "i32", "f32", "f64"}
GenTypes == {"i8", "f64"}
SigPunctuation == {"(", ")", "->", ","}

\* str::parse::<ArgumentPurpose> and str::parse::<CallConv>.
ArgumentPurposes == {"normal", "sret", "vmctx"}
CallConvs == {"fast", "system_v", "baldrdash"}

\* The lookahead token at position p.
SigToken(toks, p) == IF p <= Len(toks) THEN toks[p] ELSE "EOF"
IsIdentifier(s) == s \notin SigTypes \cup SigPunctuation \cup {"EOF"}

AbiParam(t) == [value_type |-> t, extension |-> "none", purpose |-> "normal"]

SigErr(m, p) == [ok |-> FALSE, msg |-> m, pos |-> p]

\* parse_abi_param, the loop over the flags: a later flag replaces an
\* earlier one; an identifier that is no flag ends the loop.
RECURSIVE parse_abi_param_flags(_, _, _)
parse_abi_param_flags(toks, p, arg) ==
    LET s == SigToken(toks, p)
    IN  IF ~IsIdentifier(s) THEN [arg |-> arg, pos |-> p]
        ELSE IF s = "uext"
        THEN parse_abi_param_flags(toks, p + 1, [arg EXCEPT !.extension = "uext"])
        ELSE IF s = "sext"
        THEN parse_abi_param_flags(toks, p + 1, [arg EXCEPT !.extension = "sext"])
        ELSE IF s \in ArgumentPurposes
        THEN parse_abi_param_flags(toks, p + 1, [arg EXCEPT !.purpose = s])
        ELSE [arg |-> arg, pos |-> p]

\* parse_abi_param: a type, then flags (no argument location is written).
parse_abi_param(toks, p) ==
    IF SigToken(toks, p) \notin SigTypes
    THEN SigErr("expected parameter type", p)
    ELSE LET r == parse_abi_param_flags(toks, p + 1, AbiParam(SigToken(toks, p)))
         IN  [ok |-> TRUE, arg |-> r.arg, pos |-> r.pos]

RECURSIVE parse_abi_param_list_from(_, _, _)
parse_abi_param_list_from(toks, p, list) ==
    LET r == parse_abi_param(toks, p)
    IN  IF ~r.ok THEN r
        ELSE IF SigToken(toks, r.pos) = ","
        THEN parse_abi_param_list_from(toks, r.pos + 1, Append(list, r.arg))
        ELSE [ok |-> TRUE, list |-> Append(list, r.arg), pos |-> r.pos]

parse_abi_param_list(toks, p) == parse_abi_param_list_from(toks, p, <<>>)

Signature(ps, rs, cc) == [ok |-> TRUE, params |-> ps, returns |-> rs, call_conv |-> cc]

\* parse_signature without the assignment of the calling convention.
parse_signature_drops_call_conv(toks) ==
    IF SigToken(toks, 1) # "(" THEN SigErr("expected function signature: ( args... )", 1)
    ELSE LET ps == IF SigToken(toks, 2) # ")" THEN parse_abi_param_list(toks, 2)
                   ELSE [ok |-> TRUE, list |-> <<>>, pos |-> 2]
         IN  IF ~ps.ok THEN ps
             ELSE IF SigToken(toks, ps.pos) # ")"
             THEN SigErr("expected ')' after function arguments", ps.pos)
             ELSE LET rs == IF SigToken(toks, ps.pos + 1) = "->"
                            THEN parse_abi_param_list(toks, ps.pos + 2)
                            ELSE [ok |-> TRUE, list |-> <<>>, pos |-> ps.pos + 1]
                  IN  IF ~rs.ok THEN rs
                      ELSE LET text == SigToken(toks, rs.pos)
                           IN  IF ~IsIdentifier(text)
                               THEN Signature(ps.list, rs.list, "fast")
                               ELSE IF text \in CallConvs
                               THEN Signature(ps.list, rs.list, "fast")
                               ELSE SigErr("unknown calling convention", rs.pos)

\* parse_signature: "(" [paramlist] ")" ["->" retlist] [callconv].
parse_signature(toks) ==
    IF SigToken(toks, 1) # "(" THEN SigErr("expected function signature: ( args... )", 1)
    ELSE LET ps == IF SigToken(toks, 2) # ")" THEN parse_abi_param_list(toks, 2)
                   ELSE [ok |-> TRUE, list |-> <<>>, pos |-> 2]
         IN  IF ~ps.ok THEN ps
             ELSE IF SigToken(toks, ps.pos) # ")"
             THEN SigErr("expected ')' after function arguments", ps.pos)
             ELSE LET rs == IF SigToken(toks, ps.pos + 1) = "->"
                            THEN parse_abi_param_list(toks, ps.pos + 2)
                            ELSE [ok |-> TRUE, list |-> <<>>, pos |-> ps.pos + 1]
                  IN  IF ~rs.ok THEN rs
                      ELSE LET text == SigToken(toks, rs.pos)
                           IN  IF ~IsIdentifier(text)
                               THEN Signature(ps.list, rs.list, "fast")
                               ELSE IF text \in CallConvs
                               THEN Signature(ps.list, rs.list, text)
                               ELSE SigErr("unknown calling convention", rs.pos)

\* Display of an AbiParam: the type, the extension if any, the purpose
\* unless normal.
abi_param_to_string(arg) ==
    <<arg.value_type>>
    \o (IF arg.extension = "none" THEN <<>> ELSE <<arg.extension>>)
    \o (IF arg.purpose = "normal" THEN <<>> ELSE <<arg.purpose>>)

RECURSIVE abi_params_to_string(_)
abi_params_to_string(list) ==
    IF list = <<>> THEN <<>>
    ELSE abi_param_to_string(Head(list))
         \o (IF Tail(list) = <<>> THEN <<>> ELSE <<",">> \o abi_params_to_string(Tail(list)))

\* Display of a Signature: "(" params ")" ["->" returns] callconv.
signature_to_string(sig) ==
    <<"(">> \o abi_params_to_string(sig.params) \o <<")">>
    \o (IF sig.returns = <<>> THEN <<>> ELSE <<"->">> \o abi_params_to_string(sig.returns))
    \o <<sig.call_conv>>

\* The texts: the signature of tests::signature, and every text made of a
\* parameter list, an optional return list and an optional word.
FlagTexts == UNION { [1..k -> {"uext", "sext", "sret", "normal"}] : k \in 0..MaxFlags }
ParamTexts == { <<t>> \o f : t \in GenTypes, f \in FlagTexts }
ShortParamTexts == { <<t>> \o f : t \in GenTypes, f \in {<<>>, <<"sext">>, <<"sret">>} }
ParamListTexts ==
    {<<>>} \cup ParamTexts \cup { p \o <<",">> \o q : p \in ParamTexts, q \in ShortParamTexts }
ReturnTexts == {<<>>, <<"->">>} \cup { <<"->">> \o q : q \in ShortParamTexts }
WordTexts == {<<>>, <<"fast">>, <<"baldrdash">>, <<"notacc">>}

TestSignatureText ==
    <<"(", "i8", "uext", ",", "f32", ",", "f64", ",", "i32", "sret", ")",
      "->", "i32", "sext", ",", "f64", "baldrdash">>

SigTexts ==
    { <<"(">> \o ps \o <<")">> \o rs \o w :
         ps \in ParamListTexts, rs \in ReturnTexts, w \in WordTexts }
    \cup {TestSignatureText, <<"i8", "->", "i8">>, <<"(", "i8", "->", "i8">>}

SigPending == [ok |-> FALSE, msg |-> "pending", pos |-> 0]

IdleG ==
    /\ sig_text = <<>>
    /\ sig_parsed = SigPending
    /\ sig_printed = <<>>
    /\ sig_reparsed = SigPending

EmptyFunc == [ebbs |-> <<>>, params |-> <<>>, jump_tables |-> <<>>]

IdleS ==
    /\ sfunc = EmptyFunc
    /\ slayout = <<>>
    /\ dest_ebbs = {}
    /\ curr = 0
    /\ pos = Nowhere
    /\ tlive = <<>>
    /\ self_loop = FALSE
    /\ spc = "done"
    /\ inserted = <<>>
    /\ walklog = <<>>

IdleF ==
    /\ func = EmptyFunc
    /\ isa = FALSE
    /\ livein = <<>>
    /\ worklist = <<>>
    /\ fresult = "Ok"
    /\ ferr = NoErr
    /\ fvisits = <<>>

InitS ==
    /\ sfunc \in SFunctions
    /\ slayout = LayoutOf(sfunc)
    /\ dest_ebbs = {}
    /\ curr = NumSEbbs
    /\ pos = Nowhere
    /\ tlive = <<>>
    /\ self_loop = FALSE
    /\ spc = "top"
    /\ inserted = <<>>
    /\ walklog = <<>>
    /\ IdleF
    /\ IdleP
    /\ IdleI
    /\ IdleT
    /\ IdleC
    /\ IdleG

\* The functions made of a call and a use of the reference v0, a return and
\* the branches; the entry EBB has the parameters v0 and v2.
WalkInsts ==
    { i \in SInsts : /\ i.res = <<>>
                     /\ 1 \notin Range(i.args)
                     /\ i.br.kind # "Table"
                     /\ i.op = "call" => i.args = <<0>> }

WalkFunctions ==
    { f \in [ ebbs : [SEbbs -> SeqsUpTo(WalkInsts, MaxSInsts)],
              params : { [e \in SEbbs |-> IF e = 1 THEN <<0, 2>> ELSE <<>>] },
              jump_tables : [{1} -> {[i \in 1..NumSEbbs |-> i]}] ] : IsSSA(f) }

InitSL ==
    /\ sfunc \in WalkFunctions
    /\ slayout = LayoutOf(sfunc)
    /\ dest_ebbs = {}
    /\ curr = NumSEbbs
    /\ pos = Nowhere
    /\ tlive = <<>>
    /\ self_loop = FALSE
    /\ spc = "top"
    /\ inserted = <<>>
    /\ walklog = <<>>
    /\ IdleF
    /\ IdleP
    /\ IdleI
    /\ IdleT
    /\ IdleC
    /\ IdleG

\* The start of an iteration of `while let Some(ebb) = curr`: the first
\* try_insert_savepoint_at_ebb_top and pos.goto_top(ebb).
EbbTop ==
    /\ spc = "top"
    /\ curr # 0
    /\ LET r == try_insert_savepoint_at_ebb_top(sfunc, slayout, Nowhere, dest_ebbs,
                                                inserted, curr)
       IN /\ slayout' = r.lay
          /\ tlive' = r.tlive
          /\ inserted' = r.inserted
    /\ self_loop' = FALSE
    /\ pos' = Before(curr)
    /\ spc' = "walk"
    /\ walklog' = Append(walklog, [kind |-> "ebb", ebb |-> curr, id |-> 0, op |-> ""])
    /\ UNCHANGED <<sfunc, dest_ebbs, curr, fvars, pvars, ivars, tvars, cvars, gvars>>

\* One iteration of `while let Some(inst) = pos.next_inst()`.
WalkInst ==
    /\ spc = "walk"
    /\ LET p == next_inst(slayout, pos)
       IN /\ p.at = "At"
          /\ LET inst == slayout[p.ebb][p.idx]
                 live_ref_values == get_live_ref_values(tlive)
                 dest == branch_destination(inst)
             IN /\ tlive' = TrackerProcessInst(sfunc, curr, inst, tlive)
                /\ IF dest # None
                   THEN /\ self_loop' = (self_loop \/ is_self_loop(Unwrap(dest), curr, dest_ebbs))
                        /\ dest_ebbs' = HashSetInsert(dest_ebbs, Unwrap(dest))
                        /\ pos' = p
                        /\ UNCHANGED <<slayout, inserted>>
                   ELSE IF is_call(inst) /\ HasLiveRefs(live_ref_values)
                   THEN LET r == ins_and_enc_stackmap_instr(slayout, p, live_ref_values)
                        IN /\ slayout' = r.lay
                           /\ pos' = r.pos
                           /\ inserted' = Append(inserted,
                                  [ebb |-> curr, where |-> "call",
                                   args |-> live_ref_values, live |-> tlive])
                           /\ UNCHANGED <<self_loop, dest_ebbs>>
                   ELSE /\ pos' = p
                        /\ UNCHANGED <<slayout, inserted, self_loop, dest_ebbs>>
    /\ walklog' = Append(walklog,
                          LET p == next_inst(slayout, pos)
                          IN  [kind |-> "inst", ebb |-> curr, id |-> slayout[p.ebb][p.idx].id,
                               op |-> slayout[p.ebb][p.idx].op])
    /\ UNCHANGED <<sfunc, curr, spc, fvars, pvars, ivars, tvars, cvars, gvars>>

\* pos.next_inst() returns None: the self-loop fallback, then the previous EBB.
EbbEnd ==
    /\ spc = "walk"
    /\ LET p == next_inst(slayout, pos)
       IN /\ p.at # "At"
          /\ IF self_loop
             THEN LET r == try_insert_savepoint_at_ebb_top(sfunc, slayout, p, dest_ebbs,
                                                           inserted, curr)
                  IN /\ slayout' = r.lay
                     /\ pos' = r.pos
                     /\ tlive' = r.tlive
                     /\ inserted' = r.inserted
             ELSE /\ pos' = p
                  /\ UNCHANGED <<slayout, tlive, inserted>>
    /\ curr' = curr - 1
    /\ spc' = IF curr = 1 THEN "done" ELSE "top"
    /\ UNCHANGED <<sfunc, dest_ebbs, self_loop, walklog, fvars, pvars, ivars, tvars, cvars, gvars>>

NextS == EbbTop \/ WalkInst \/ EbbEnd

InitF ==
    /\ func \in Functions
    /\ isa \in BOOLEAN
    /\ livein = [e \in Ebbs |-> None]
    /\ worklist = [i \in 1..NumEbbs |-> i]
    /\ fresult = "running"
    /\ ferr = NoErr
    /\ fvisits = <<>>
    /\ IdleS
    /\ IdleP
    /\ IdleI
    /\ IdleT
    /\ IdleC
    /\ IdleG

\* The functions made of flags definitions and uses, branches and jumps.
LoopInsts ==
    { i \in FInsts : /\ i.enc # "clobber"
                     /\ i.br.kind # "Table"
                     /\ 1 \notin Range(i.res) \cup Range(i.args) }

\* No encoding of these instructions clobbers the flags, so the ISA makes
\* no difference; the jump table is not used.
LoopFunctions ==
    [ ebbs : [Ebbs -> SeqsUpTo(LoopInsts, MaxInsts)],
      jump_tables : [{1} -> {[i \in 1..NumEbbs |-> i]}] ]

InitFL ==
    /\ func \in LoopFunctions
    /\ isa = FALSE
    /\ livein = [e \in Ebbs |-> None]
    /\ worklist = [i \in 1..NumEbbs |-> i]
    /\ fresult = "running"
    /\ ferr = NoErr
    /\ fvisits = <<>>
    /\ IdleS
    /\ IdleP
    /\ IdleI
    /\ IdleT
    /\ IdleC
    /\ IdleG

\* One iteration of `while let Some(ebb) = worklist.pop()` in check().
CheckIter ==
    /\ fresult = "running"
    /\ worklist # <<>>
    /\ LET ebb == worklist[Len(worklist)]
           rest == SubSeq(worklist, 1, Len(worklist) - 1)
           r == visit_ebb(func, livein, isa, ebb)
       IN  IF ~r.ok
           THEN /\ fresult' = "Err"
                /\ ferr' = r.err
                /\ worklist' = rest
                /\ UNCHANGED livein
           ELSE IF r.live # None
           THEN IF livein[ebb] = None
                THEN /\ livein' = set_livein(livein, ebb, r.live)
                     /\ worklist' = SparseInsertAll(rest, SortedSeq(Preds(func, ebb)))
                     /\ UNCHANGED <<fresult, ferr>>
                ELSE IF livein[ebb] # r.live
                THEN /\ fresult' = "Err"
                     /\ ferr' = Err("conflicting live-in CPU flags", livein[ebb], r.live)
                     /\ worklist' = rest
                     /\ UNCHANGED livein
                ELSE /\ worklist' = rest
                     /\ UNCHANGED <<livein, fresult, ferr>>
           ELSE \* Existing live-in flags should never be able to disappear.
                IF livein[ebb] = None
                THEN /\ worklist' = rest
                     /\ UNCHANGED <<livein, fresult, ferr>>
                ELSE /\ fresult' = "Panic"
                     /\ worklist' = rest
                     /\ UNCHANGED <<livein, ferr>>
    /\ fvisits' = Append(fvisits,
                          [ebb |-> worklist[Len(worklist)], livein |-> livein,
                           ret |-> visit_ebb(func, livein, isa, worklist[Len(worklist)])])
    /\ UNCHANGED <<func, isa, svars, pvars, ivars, tvars, cvars, gvars>>

\* The worklist is empty: check() returns Ok(()).
CheckReturn ==
    /\ fresult = "running"
    /\ worklist = <<>>
    /\ fresult' = "Ok"
    /\ UNCHANGED <<func, isa, livein, worklist, ferr, fvisits, svars, pvars, ivars, tvars, cvars, gvars>>

NextF == CheckIter \/ CheckReturn

\* ------------------------------ actions ---------------------------------

\* The state of Context (function and map) as one record.
Cur ==
    [tables |-> tables, locations |-> locations, values |-> values, ebbs |-> dfg_ebbs,
     layout |-> layout, insts |-> dfg_insts, aliases |-> aliases, hist |-> defhist,
     err |-> NoPErr]

IsPanic(st) == st.err.msg \in {"panic: duplicate SigRef entities created",
                               "panic: duplicate inst references created"}

\* Store the outcome of a step; an error ends the parse.
Commit(st, phase, ebb, decl) ==
    /\ tables' = st.tables
    /\ locations' = st.locations
    /\ values' = st.values
    /\ dfg_ebbs' = st.ebbs
    /\ layout' = st.layout
    /\ dfg_insts' = st.insts
    /\ aliases' = st.aliases
    /\ defhist' = st.hist
    /\ perr' = st.err
    /\ pphase' = IF POk(st) THEN phase ELSE IF IsPanic(st) THEN "panic" ELSE "error"
    /\ cur_ebb' = ebb
    /\ declared' = declared \o decl
    /\ line' = line + 1
    /\ UNCHANGED <<fvars, svars, ivars, tvars, cvars, gvars>>

\* parse_function has read the function header on line 1.
InitP ==
    /\ tables = EmptyTables
    /\ locations = <<>>
    /\ values = <<>>
    /\ dfg_ebbs = <<>>
    /\ layout = <<>>
    /\ dfg_insts = <<>>
    /\ aliases = <<>>
    /\ defhist = <<>>
    /\ perr = NoPErr
    /\ pphase = "preamble"
    /\ cur_ebb = Reserved
    /\ declared = <<>>
    /\ line = 1
    /\ IdleF
    /\ IdleS
    /\ IdleI
    /\ IdleT
    /\ IdleC
    /\ IdleG

CanRead == line <= MaxItems

\* parse_preamble, Token::StackSlot: the location is the declaration's line.
DeclSS ==
    /\ pphase = "preamble" /\ CanRead
    /\ \E ss \in Handles, data \in SSData :
         Commit(add_ss(Cur, ss, data, line + 1), "preamble", Reserved,
                <<[ent |-> <<"ss", ss>>, data |-> data]>>)

\* The other declarations are located at self.loc after the declaration was
\* parsed, which is the line of the token that follows it.
DeclGV ==
    /\ pphase = "preamble" /\ CanRead
    /\ \E gv \in Handles, data \in GVData :
         Commit(add_gv(Cur, gv, data, line + 2), "preamble", Reserved,
                <<[ent |-> <<"gv", gv>>, data |-> data]>>)

DeclHeap ==
    /\ pphase = "preamble" /\ CanRead
    /\ \E heap \in Handles, data \in HeapData :
         Commit(add_heap(Cur, heap, data, line + 2), "preamble", Reserved,
                <<[ent |-> <<"heap", heap>>, data |-> data]>>)

DeclSig ==
    /\ pphase = "preamble" /\ CanRead
    /\ \E sig \in Handles, data \in SigData :
         Commit(add_sig(Cur, sig, data, line + 2), "preamble", Reserved,
                <<[ent |-> <<"sig", sig>>, data |-> data]>>)

DeclFn ==
    /\ pphase = "preamble" /\ CanRead
    /\ \E fn \in Handles, inline \in BOOLEAN, sig \in {0} :
         LET d == parse_function_decl(Cur, "%f", inline, InlineSig, sig, line + 1)
         IN  Commit(IF POk(d.st) THEN add_fn(d.st, fn, d.data, line + 2) ELSE d.st,
                    "preamble", Reserved,
                    (IF inline THEN <<[ent |-> <<"sig", d.data.r>>, data |-> InlineSig]>>
                               ELSE <<>>)
                    \o <<[ent |-> <<"fn", fn>>, data |-> d.data]>>)

DeclJT ==
    /\ pphase = "preamble" /\ CanRead
    /\ \E jt \in Handles, data \in JTData :
         Commit(add_jt(Cur, jt, data, line + 2), "preamble", Reserved,
                <<[ent |-> <<"jt", jt>>, data |-> data]>>)

\* parse_extended_basic_block up to the instructions: the header with its
\* parameter list.
EbbHeader ==
    /\ pphase \in {"preamble", "body"} /\ CanRead
    /\ \E ebb \in PEbbs, params \in ParamLists :
         LET a == add_ebb(Cur, ebb, line + 1)
         IN  Commit(parse_ebb_params(a, ebb, params, 1, line + 1), "body", ebb, <<>>)

\* One iteration of the instruction loop that takes the `=` or the bare
\* opcode branch.
InstLineStep ==
    /\ pphase = "body" /\ CanRead
    /\ \E l \in InstLines :
         LET padded == [Cur EXCEPT !.values = PadResults(@, l.res, 1)]
         IN  Commit(parse_instruction(padded, l.res, l, cur_ebb, line + 1),
                    "body", cur_ebb, <<>>)

\* The same iteration, for the lines that refer to entities of the preamble.
RefInstLineStep ==
    /\ pphase = "body" /\ CanRead
    /\ \E l \in RefLines :
         LET padded == [Cur EXCEPT !.values = PadResults(@, l.res, 1)]
         IN  Commit(parse_instruction(padded, l.res, l, cur_ebb, line + 1),
                    "body", cur_ebb, <<>>)

\* One iteration of the instruction loop that takes the `->` branch.
AliasLineStep ==
    /\ pphase = "body" /\ CanRead
    /\ \E l \in AliasLines :
         LET padded == [Cur EXCEPT !.values = PadResults(@, l.res, 1)]
         IN  Commit(parse_value_alias(padded, l.res, l.dest, line + 1),
                    "body", cur_ebb, <<>>)

\* The closing brace: the checks at the end of parse_function_body.
CloseBody ==
    /\ pphase \in {"preamble", "body"}
    /\ LET st == parse_function_body_end(Cur)
       IN  /\ tables' = st.tables
           /\ locations' = st.locations
           /\ values' = st.values
           /\ perr' = st.err
           /\ pphase' = IF POk(st) THEN "done" ELSE "error"
    /\ UNCHANGED <<dfg_ebbs, layout, dfg_insts, aliases, defhist, cur_ebb, declared, line,
                   fvars, svars, ivars, tvars, cvars, gvars>>

NextP ==
    \/ DeclSS \/ DeclGV \/ DeclHeap \/ DeclSig \/ DeclFn \/ DeclJT
    \/ EbbHeader \/ InstLineStep \/ AliasLineStep \/ CloseBody

\* The parser on the functions whose instructions refer to the preamble.
NextR ==
    \/ DeclSS \/ DeclGV \/ DeclHeap \/ DeclSig \/ DeclFn \/ DeclJT
    \/ EbbHeader \/ RefInstLineStep \/ CloseBody

\* ------------------------- parse_isa_specs ------------------------------

InitI ==
    /\ seen_isa = FALSE
    /\ last_set_loc = None
    /\ isas = <<>>
    /\ flag_builder = {}
    /\ isa_spec = IsaRunning
    /\ prelude = <<>>
    /\ IdleF
    /\ IdleS
    /\ IdleP
    /\ IdleT
    /\ IdleC
    /\ IdleG

\* The line of the command token that is read next.
NextLoc == Len(prelude) + 1

\* The "set" arm of the loop.
SetCommand ==
    /\ isa_spec.kind = "running" /\ Len(prelude) < MaxPrelude
    /\ \E l \in SetLines :
         LET r == parse_options(l.words, flag_builder)
         IN  /\ prelude' = Append(prelude, l)
             /\ last_set_loc' = Some(NextLoc)
             /\ flag_builder' = r.builder
             /\ isa_spec' = IF r.ok THEN isa_spec ELSE IsaErr(NextLoc, "unknown setting")
    /\ UNCHANGED <<seen_isa, isas, fvars, svars, pvars, tvars, cvars, gvars>>

\* The "isa" arm of the loop.
IsaCommand ==
    /\ isa_spec.kind = "running" /\ Len(prelude) < MaxPrelude
    /\ \E l \in IsaLines :
         /\ prelude' = Append(prelude, l)
         /\ IF l.name = ""
            THEN /\ isa_spec' = IsaErr(NextLoc, "expected ISA name")
                 /\ UNCHANGED <<seen_isa, last_set_loc, isas>>
            ELSE IF isa_lookup(l.name) = "Unknown"
            THEN /\ isa_spec' = IsaErr(NextLoc, "unknown ISA")
                 /\ UNCHANGED <<seen_isa, last_set_loc, isas>>
            ELSE IF isa_lookup(l.name) = "Unsupported"
            THEN UNCHANGED <<isa_spec, seen_isa, last_set_loc, isas>>
            ELSE LET r == parse_options(l.words, {})
                 IN  /\ last_set_loc' = None
                     /\ seen_isa' = TRUE
                     /\ IF r.ok
                        THEN /\ isas' = Append(isas, finish(l.name, r.builder, flag_builder))
                             /\ UNCHANGED isa_spec
                        ELSE /\ isa_spec' = IsaErr(NextLoc, "unknown setting")
                             /\ UNCHANGED isas
    /\ UNCHANGED <<flag_builder, fvars, svars, pvars, tvars, cvars, gvars>>

isa_specs_result_no_dangling(seen, last_set, list, flags) ==
    IF ~seen THEN IsaSpecNone(flags) ELSE IsaSpecSome(list)

isa_specs_result_always_some(seen, last_set, list, flags) ==
    IF seen /\ last_set # None
    THEN IsaErr(Unwrap(last_set),
                "dangling 'set' command after ISA specification has no effect.")
    ELSE IsaSpecSome(list)

\* The value parse_isa_specs returns after the loop.
isa_specs_result(seen, last_set, list, flags) ==
    IF ~seen THEN IsaSpecNone(flags)
    ELSE IF last_set # None
    THEN IsaErr(Unwrap(last_set),
                "dangling 'set' command after ISA specification has no effect.")
    ELSE IsaSpecSome(list)

\* Any other token ends the loop.
EndOfPrelude ==
    /\ isa_spec.kind = "running"
    /\ isa_spec' = isa_specs_result(seen_isa, last_set_loc, isas, flag_builder)
    /\ UNCHANGED <<seen_isa, last_set_loc, isas, flag_builder, prelude, fvars, svars, pvars, tvars, cvars, gvars>>

NextI == SetCommand \/ IsaCommand \/ EndOfPrelude

\* --------------------------- infer_typevar ------------------------------

InitT ==
    /\ tv_ctx \in TvContexts
    /\ tv_inst \in TvInsts
    /\ tv_ret = TvPending
    /\ IdleF
    /\ IdleS
    /\ IdleP
    /\ IdleI
    /\ IdleC
    /\ IdleG

InferTypevar ==
    /\ tv_ret = TvPending
    /\ tv_ret' = infer_typevar(TvState, tv_inst.opcode, tv_inst.explicit_ctrl_type,
                               tv_inst.args, TvLoc)
    /\ UNCHANGED <<tv_ctx, tv_inst, fvars, svars, pvars, ivars, cvars, gvars>>

NextT == InferTypevar

\* -------------------------- comment gathering ---------------------------

\* Parser::new, entered through parse_test or through parse_function.
InitC ==
    /\ gathering_comments = FALSE
    /\ gathered_comments = <<>>
    /\ comments = <<>>
    /\ lookahead = FALSE
    /\ lex_eof = FALSE
    /\ lex_count = 0
    /\ from_test \in BOOLEAN
    /\ cphase = IF from_test THEN "test" ELSE "function"
    /\ preamble_comments = <<>>
    /\ details = <<>>
    /\ centities = 0
    /\ lexlog = <<>>
    /\ claimlog = <<>>
    /\ func_kw = <<>>
    /\ IdleF
    /\ IdleS
    /\ IdleP
    /\ IdleI
    /\ IdleT
    /\ IdleG

CCur ==
    CState(gathering_comments, gathered_comments, comments, lookahead, lex_eof, lex_count,
           lexlog, claimlog, FALSE)

\* Store the parser after a step; a failed assertion ends the run.
CCommit(st, phase) ==
    /\ gathering_comments' = st.gathering
    /\ gathered_comments' = st.gathered
    /\ comments' = st.comments
    /\ lookahead' = st.lookahead
    /\ lex_eof' = st.eof
    /\ lex_count' = st.count
    /\ lexlog' = st.lexlog
    /\ claimlog' = st.claimlog
    /\ cphase' = IF st.panic THEN "panic" ELSE phase
    /\ st.count <= MaxLexed
    /\ Len(st.claimlog) <= MaxClaims
    /\ UNCHANGED <<from_test, fvars, svars, pvars, ivars, tvars, gvars>>

\* parse_test up to parse_function_list: the prelude's comments are
\* claimed for AnyEntity::Function and taken as preamble_comments.  The
\* prelude has at most one command line.
ParseTest ==
    /\ cphase = "test"
    /\ \E n1 \in Gaps, n2 \in Gaps, command \in BOOLEAN, eof \in BOOLEAN :
         LET s0 == start_gathering_comments(CCur)
             s1 == token(s0, n1, eof /\ ~command)
             s2 == IF command THEN token(consume(s1), n2, eof) ELSE s1
             s3 == claim_gathered_comments(s2, AnyEntityFunction)
             t  == take_comments(s3)
         IN  /\ preamble_comments' = t.taken
             /\ CCommit(t.st, "list")
    /\ UNCHANGED <<details, centities, func_kw>>

\* parse_function_list: no token is left.
EndOfList ==
    /\ cphase = "list"
    /\ lex_eof
    /\ CCommit(token(CCur, 0, TRUE), "done")
    /\ UNCHANGED <<preamble_comments, details, centities, func_kw>>

\* parse_function up to the preamble: `function` name signature `{`.
FunctionHeader ==
    /\ \/ cphase = "list" /\ ~lex_eof
       \/ cphase = "function" /\ details = <<>>
    /\ \E n0 \in Gaps, n1 \in Gaps, n2 \in Gaps, ok \in BOOLEAN :
         LET s0 == token(CCur, n0, FALSE)
             s1 == IF s0.comments # <<>> THEN [s0 EXCEPT !.panic = TRUE]
                   ELSE start_gathering_comments(s0)
             s2 == token(consume(s1), n1, FALSE)
             s3 == token(consume(s2), n2, FALSE)
             s4 == claim_gathered_comments(s3, AnyEntityFunction)
         IN  /\ func_kw' = Append(func_kw, s0.count)
             /\ IF ok THEN CCommit(s4, "preamble") ELSE CCommit(s1, "error")
    /\ UNCHANGED <<preamble_comments, details, centities>>

\* A declaration of the preamble: entity `=` data.
PreambleDecl ==
    /\ cphase = "preamble"
    /\ \E n1 \in Gaps, n2 \in Gaps, ok \in BOOLEAN :
         LET s0 == start_gathering_comments(CCur)
             s1 == token(consume(s0), n1, FALSE)
             s2 == token(consume(s1), n2, FALSE)
             s3 == claim_gathered_comments(s2, <<"decl", centities>>)
         IN  IF ok THEN CCommit(s3, "preamble") ELSE CCommit(s1, "error")
    /\ centities' = centities + 1
    /\ UNCHANGED <<preamble_comments, details, func_kw>>

\* parse_extended_basic_block up to the instructions: ebbN `:`.
CEbbHeader ==
    /\ cphase \in {"preamble", "body"}
    /\ \E n1 \in Gaps, n2 \in Gaps :
         LET s0 == start_gathering_comments(CCur)
             s1 == token(consume(s0), n1, FALSE)
             s2 == token(consume(s1), n2, FALSE)
             s3 == claim_gathered_comments(s2, <<"ebb", centities>>)
         IN  CCommit(s3, "body")
    /\ centities' = centities + 1
    /\ UNCHANGED <<preamble_comments, details, func_kw>>

\* An instruction line: the results and `=` are read before
\* parse_instruction starts gathering.
CInstruction ==
    /\ cphase = "body"
    /\ \E n1 \in Gaps, n2 \in Gaps, n3 \in Gaps, results \in BOOLEAN :
         LET s0 == IF results THEN consume(token(consume(CCur), n1, FALSE)) ELSE CCur
             s1 == start_gathering_comments(s0)
             s2 == token(s1, n2, FALSE)
             s3 == token(consume(s2), n3, FALSE)
             s4 == claim_gathered_comments(s3, <<"inst", centities>>)
         IN  CCommit(s4, "body")
    /\ centities' = centities + 1
    /\ UNCHANGED <<preamble_comments, details, func_kw>>

\* A value alias line: vN `->` vM; nothing is gathered.
CValueAlias ==
    /\ cphase = "body"
    /\ \E n1 \in Gaps, n2 \in Gaps, n3 \in Gaps :
         LET s1 == token(consume(CCur), n1, FALSE)
             s2 == token(consume(s1), n2, FALSE)
             s3 == token(consume(s2), n3, FALSE)
         IN  CCommit(s3, "body")
    /\ UNCHANGED <<preamble_comments, details, centities, func_kw>>

\* parse_function from the closing brace: the trailing comments are claimed
\* for AnyEntity::Function and the function's comments are taken.
FunctionEnd ==
    /\ cphase \in {"preamble", "body"}
    /\ \E n \in Gaps, eof \in BOOLEAN :
         LET s0 == start_gathering_comments(consume(CCur))
             s1 == token(s0, n, eof)
             s2 == claim_gathered_comments(s1, AnyEntityFunction)
             t  == take_comments(s2)
         IN  /\ details' = Append(details, t.taken)
             /\ CCommit(t.st, IF from_test THEN "list" ELSE "done")
    /\ UNCHANGED <<preamble_comments, centities, func_kw>>

NextC ==
    \/ ParseTest \/ EndOfList \/ FunctionHeader \/ PreambleDecl
    \/ CEbbHeader \/ CInstruction \/ CValueAlias \/ FunctionEnd

\* ---------------------------- signatures --------------------------------

InitG ==
    /\ sig_text \in SigTexts
    /\ sig_parsed = SigPending
    /\ sig_printed = <<>>
    /\ sig_reparsed = SigPending
    /\ IdleF
    /\ IdleS
    /\ IdleP
    /\ IdleI
    /\ IdleT
    /\ IdleC

\* Parser::new(text).parse_signature(None)
ParseSignature ==
    /\ sig_parsed = SigPending
    /\ sig_parsed' = parse_signature(sig_text)
    /\ UNCHANGED <<sig_text, sig_printed, sig_reparsed, fvars, svars, pvars, ivars, tvars, cvars>>

\* sig.to_string()
PrintSignature ==
    /\ sig_parsed.ok
    /\ sig_printed = <<>>
    /\ sig_printed' = signature_to_string(sig_parsed)
    /\ UNCHANGED <<sig_text, sig_parsed, sig_reparsed, fvars, svars, pvars, ivars, tvars, cvars>>

\* Parser::new(printed).parse_signature(None)
ReparseSignature ==
    /\ sig_printed # <<>>
    /\ sig_reparsed = SigPending
    /\ sig_reparsed' = parse_signature(sig_printed)
    /\ UNCHANGED <<sig_text, sig_parsed, sig_printed, fvars, svars, pvars, ivars, tvars, cvars>>

NextG == ParseSignature \/ PrintSignature \/ ReparseSignature

vars == <<fvars, svars, pvars, ivars, tvars, cvars, gvars>>

SpecF == InitF /\ [][NextF]_vars

\* check() is one sequential loop: an iteration that can run does run.
SpecFL == InitFL /\ [][NextF]_vars /\ WF_vars(NextF)

SpecR == InitP /\ [][NextR]_vars

SpecS == InitS /\ [][NextS]_vars

\* emit_stackmaps is one sequential loop: a step that can be taken is taken.
SpecSL == InitSL /\ [][NextS]_vars /\ WF_vars(NextS)

SpecP == InitP /\ [][NextP]_vars

SpecI == InitI /\ [][NextI]_vars

SpecT == InitT /\ [][NextT]_vars

SpecC == InitC /\ [][NextC]_vars

SpecG == InitG /\ [][NextG]_vars

FlagsOf(S) == { v \in S : is_flags(value_type(v)) }

\* C1: if verify_flags returns Ok then at every program point (before and
\* after every instruction) at most one flags value is live.
C1_AtMostOneFlagsLive ==
    fresult = "Ok" =>
        LET L == PathLivein(func)
        IN \A e \in Ebbs : \A i \in 1..Len(func.ebbs[e]) :
              /\ Cardinality(FlagsOf(PathLiveBefore(func, L, e, i))) <= 1
              /\ Cardinality(FlagsOf(PathLiveAfter(func, L, e, i))) <= 1

\* Ok is returned for a function in which a flags value is live across an
\* EBB boundary.
C1_Witness ==
    /\ fresult = "Ok"
    /\ \E e \in Ebbs : livein[e] # None /\ Preds(func, e) \ {e} # {}

RefsOf(S) == { v \in S : is_ref(svalue_type(v)) }

\* The reference-typed values live before the instruction that had index id
\* in EBB e when the pass started.
LiveRefsBefore(e, id) == RefsOf(PathLiveBefore(sfunc, PathLivein(sfunc), e, id))

\* The instruction is a stackmap whose operands are exactly the values of L.
IsStackmapOf(inst, L) ==
    /\ inst.op = "stackmap"
    /\ Range(inst.args) = L
    /\ Len(inst.args) = Cardinality(L)

\* C3: after emit_stackmaps, every call with a non-empty set of live
\* references before it is immediately preceded by a stackmap of exactly
\* those values.
C3_StackmapBeforeCall ==
    spc = "done" =>
        \A e \in DOMAIN slayout : \A i \in 1..Len(slayout[e]) :
            (slayout[e][i].op = "call" /\ LiveRefsBefore(e, slayout[e][i].id) # {}) =>
                /\ i > 1
                /\ IsStackmapOf(slayout[e][i - 1], LiveRefsBefore(e, slayout[e][i].id))

\* The pass has ended on a function with a call before which two references
\* are live, and the call has its stackmap.
C3_Witness ==
    /\ spc = "done"
    /\ \E e \in DOMAIN slayout : \E i \in 2..Len(slayout[e]) :
          /\ slayout[e][i].op = "call"
          /\ Cardinality(LiveRefsBefore(e, slayout[e][i].id)) = 2
          /\ slayout[e][i - 1].op = "stackmap"

\* EBB e is the target of a branch located in e itself or in a later EBB.
TargetOfLaterBranch(f, e) ==
    \E e2 \in DOMAIN f.ebbs : \E i \in 1..Len(f.ebbs[e2]) :
        e2 >= e /\ e \in BranchDests(f, f.ebbs[e2][i])

\* C4: after emit_stackmaps, every EBB that is the target of a branch from a
\* later instruction and has live references at its top starts with a
\* stackmap of exactly those values.
C4_StackmapAtBranchTarget ==
    spc = "done" =>
        \A e \in DOMAIN slayout :
            (TargetOfLaterBranch(sfunc, e) /\ LiveRefsBefore(e, 1) # {}) =>
                IsStackmapOf(slayout[e][1], LiveRefsBefore(e, 1))

\* C5: every stackmap inserted has a non-empty operand list that is exactly
\* the reference-typed part of the tracker's live list at the insertion
\* point, and the stackmaps in the layout are the inserted ones.
StackmapsIn(lay) ==
    { <<e, i>> \in UNION { {e} \X (1..Len(lay[e])) : e \in DOMAIN lay } :
        lay[e][i].op = "stackmap" }

C5_OnlyLiveRefs ==
    /\ \A k \in 1..Len(inserted) :
          /\ inserted[k].args # <<>>
          /\ Range(inserted[k].args) = RefsOf(Range(inserted[k].live))
          /\ \A v \in Range(inserted[k].args) : is_ref(svalue_type(v))
    /\ Cardinality(StackmapsIn(slayout)) = Len(inserted)
    /\ \A p \in StackmapsIn(slayout) :
          \E k \in 1..Len(inserted) :
              /\ inserted[k].ebb = p[1]
              /\ inserted[k].args = slayout[p[1]][p[2]].args

\* A stackmap was inserted where a value of a non-reference type was live too.
C5_Witness ==
    \E k \in 1..Len(inserted) :
        /\ Len(inserted[k].live) > Len(inserted[k].args)
        /\ slayout[inserted[k].ebb][1].op = "stackmap"

\* What the pass does guarantee: the statement of C4 for the targets of
\* single-destination branches, the only ones branch_destination reports.
C4_SingleDestOnly ==
    spc = "done" =>
        \A e \in DOMAIN slayout :
            ((\E e2 \in DOMAIN sfunc.ebbs : \E i \in 1..Len(sfunc.ebbs[e2]) :
                 e2 >= e /\ branch_destination(sfunc.ebbs[e2][i]) = Some(e))
             /\ LiveRefsBefore(e, 1) # {}) =>
                IsStackmapOf(slayout[e][1], LiveRefsBefore(e, 1))

(***************************************************************************)
(* Parser and SourceMap properties                                          *)
(***************************************************************************)

DefsOf(ent) == { i \in 1..Len(defhist) : defhist[i].ent = ent }
DefinedBefore(i) == \E j \in 1..(i - 1) : defhist[j].ent = defhist[i].ent
DuplicateOf(ent) == perr.msg = "duplicate entity" /\ perr.ent = ent

\* C6: in any sequence of definitions, of any entity kind, a definition
\* succeeds and records its location iff the entity was not defined before;
\* a definition of an entity defined before is the last one of the parse and
\* fails with 'duplicate entity: <entity>' at its location.
C6_DefineIffNew ==
    \A i \in 1..Len(defhist) :
        /\ DefinedBefore(i) <=>
              (i = Len(defhist) /\ DuplicateOf(defhist[i].ent) /\ perr.line = defhist[i].loc)
        /\ ~DefinedBefore(i) /\ DefsOf(defhist[i].ent) = {i} =>
              location(locations, defhist[i].ent) = Some(defhist[i].loc)

\* A signature first defined by an inline signature of a function
\* declaration and then declared again.
C6_Witness ==
    /\ DuplicateOf(<<"sig", 0>>)
    /\ pphase = "error"
    /\ Len(declared) = 3
    /\ declared[1] = [ent |-> <<"sig", 0>>, data |-> InlineSig]
    /\ declared[3].ent = <<"sig", 0>>

Filler(kind) ==
    CASE kind = "ss" -> FillerSS
      [] kind = "gv" -> FillerGV
      [] kind = "heap" -> FillerHeap
      [] kind = "sig" -> FillerSig
      [] kind = "fn" -> FillerFn
      [] kind = "jt" -> FillerJT

DistinctHandles ==
    \A i \in 1..Len(declared), j \in 1..Len(declared) :
        declared[i].ent = declared[j].ent => i = j

DeclaredEnts == { declared[i].ent : i \in 1..Len(declared) }

C7_TablesHold ==
    DistinctHandles /\ perr.msg # "undefined signature" =>
        /\ \A i \in 1..Len(declared) :
              LET kind == declared[i].ent[1]
                  k == declared[i].ent[2]
              IN  /\ Len(tables[kind]) > k
                  /\ tables[kind][k + 1] = declared[i].data
        /\ \A kind \in TableKinds : \A k \in 0..(Len(tables[kind]) - 1) :
              <<kind, k>> \notin DeclaredEnts =>
                  /\ tables[kind][k + 1] = Filler(kind)
                  /\ \E h \in (k + 1)..(Len(tables[kind]) - 1) : <<kind, h>> \in DeclaredEnts

C7_LowerAfterHigher ==
    \A i \in (Len(declared) + 1)..Len(declared') :
        LET kind == declared'[i].ent[1]
            k == declared'[i].ent[2]
        IN  k < Len(tables[kind]) =>
              /\ Len(tables'[kind]) = Len(tables[kind])
              /\ \A h \in 1..Len(tables[kind]) : h # k + 1 => tables'[kind][h] = tables[kind][h]

\* C7: after preamble declarations with distinct handles, in any order, each
\* table is longer than every declared handle, each declared slot holds its
\* declared data and every other slot lies below a declared one and holds
\* the kind's filler; a declaration of a handle that is already inside the
\* table leaves the length and every other slot unchanged.
C7_GapFilling == [](C7_TablesHold) /\ [][C7_LowerAfterHigher]_vars

\* ss2 declared before ss0, both with data that differs from the filler.
C7_Witness ==
    /\ perr = NoPErr
    /\ Len(declared) = 2
    /\ declared[1] = [ent |-> <<"ss", 2>>, data |-> Data("incoming_arg", 8, Reserved, <<>>)]
    /\ declared[2] = [ent |-> <<"ss", 0>>, data |-> Data("incoming_arg", 8, Reserved, <<>>)]
    /\ tables.ss = <<declared[2].data, FillerSS, declared[1].data>>

LookupNames == (LookupKinds \cup {"inst", "x"}) \X (0..(MaxHandle + 1))

\* C8: lookup_str(name) is the entity iff a definition of that kind and
\* number was read, for the eight kinds with textual names; gap fillers and
\* placeholders, and names of any other prefix, give None.
C8_LookupIffDefined ==
    \A name \in LookupNames :
        lookup_str(Cur, name) =
            IF name[1] \in LookupKinds /\ DefsOf(name) # {} THEN Some(name) ELSE None

\* Only ss2 and v1 are defined: slots ss0, ss1 and v0 exist as fillers.
C8_Witness ==
    /\ DefsOf(<<"ss", 2>>) # {} /\ DefsOf(<<"ss", 1>>) = {} /\ DefsOf(<<"ss", 0>>) = {}
    /\ Len(tables.ss) = MaxHandle + 1
    /\ lookup_str(Cur, <<"ss", 2>>) = Some(<<"ss", 2>>)
    /\ lookup_str(Cur, <<"ss", 1>>) = None
    /\ DefsOf(<<"v", 1>>) # {} /\ DefsOf(<<"v", 0>>) = {}
    /\ Len(values) = MaxValue + 1
    /\ lookup_str(Cur, <<"v", 1>>) = Some(<<"v", 1>>)
    /\ lookup_str(Cur, <<"v", 0>>) = None
    /\ pphase = "done"

\* The closing brace was read: the checks at the end of the body have run.
BodyClosed == pphase = "done" \/ perr.msg \in {"undefined operand value", "alias cycle involving"}

DefinedValues == { v \in 0..(MaxValue + 1) : DefsOf(<<"v", v>>) # {} }
UsesUndefined(inst) == \E a \in Range(inst.args) : a \notin DefinedValues
LayoutPos(ebb) == CHOOSE i \in 1..Len(layout) : layout[i] = ebb
InLayoutBefore(a, b) ==
    \/ LayoutPos(a.ebb) < LayoutPos(b.ebb)
    \/ a.ebb = b.ebb /\ a.id < b.id
InstLineOf(inst) == defhist[CHOOSE i \in DefsOf(<<"inst", inst.id>>) : TRUE].loc

\* C9: once the body is closed, the operand check passes iff every operand
\* value of every instruction has a definition somewhere in the function;
\* otherwise the error is 'undefined operand value vN', at the line of the
\* first instruction in layout order with an undefined operand, and vN is
\* an undefined operand of that instruction.
C9_OperandCheck ==
    BodyClosed =>
        LET bad == { i \in 1..Len(dfg_insts) : UsesUndefined(dfg_insts[i]) }
        IN  /\ (perr.msg # "undefined operand value") <=> (bad = {})
            /\ bad # {} =>
                 \E i \in bad :
                    /\ \A j \in bad : j # i => InLayoutBefore(dfg_insts[i], dfg_insts[j])
                    /\ perr.line = InstLineOf(dfg_insts[i])
                    /\ perr.ent[1] = "v"
                    /\ perr.ent[2] \in Range(dfg_insts[i].args) \ DefinedValues

\* A successful parse with an operand that is defined on a later line.
C9_Witness ==
    /\ pphase = "done"
    /\ \E i \in 1..Len(dfg_insts) : \E a \in Range(dfg_insts[i].args) :
          \E d \in DefsOf(<<"v", a>>) : defhist[d].loc > InstLineOf(dfg_insts[i])

RECURSIVE CountIn(_, _)
CountIn(seq, x) ==
    IF seq = <<>> THEN 0
    ELSE (IF seq[1] = x THEN 1 ELSE 0) + CountIn(SubSeq(seq, 2, Len(seq)), x)

RECURSIVE SumOver(_, _, _)
SumOver(seqs, i, x) ==
    IF i > Len(seqs) THEN 0 ELSE CountIn(seqs[i], x) + SumOver(seqs, i + 1, x)

\* The places of the function that define value v: EBB parameter lists,
\* instruction result lists and alias lines.
DefinitionSites(v) ==
    SumOver(dfg_ebbs, 1, v)
    + SumOver([i \in 1..Len(dfg_insts) |-> dfg_insts[i].res], 1, v)
    + CountIn(aliases, v)

\* C10: after a successful parse every value of the source map has exactly
\* one defining place (EBB parameter, instruction result or alias) and no
\* other value has one; a second introduction of a value number, in any of
\* the three forms, ends the parse with 'duplicate entity: vN'.
C10_SingleDefinition ==
    /\ pphase = "done" =>
          \A v \in 0..(MaxValue + 1) :
              DefinitionSites(v) = IF contains(locations, <<"v", v>>) THEN 1 ELSE 0
    /\ \A v \in 0..(MaxValue + 1) :
          DefinitionSites(v) > 1 \/ Cardinality(DefsOf(<<"v", v>>)) > 1 =>
              pphase = "error" /\ DuplicateOf(<<"v", v>>)

\* v0 is a parameter of ebb0 and is introduced again by an alias line of ebb1.
C10_Witness ==
    /\ DuplicateOf(<<"v", 0>>)
    /\ Len(dfg_ebbs) > 1 /\ dfg_ebbs[1] = <<0>>
    /\ cur_ebb = 1
    /\ values[1].k = "alias"

IsAlias(v) == v \in 0..(Len(values) - 1) /\ values[v + 1].k = "alias"

\* The value n alias edges after v; Reserved when the chain ends before.
RECURSIVE AliasWalk(_, _)
AliasWalk(v, n) ==
    IF n = 0 THEN v
    ELSE IF IsAlias(v) THEN AliasWalk(values[v + 1].orig, n - 1)
    ELSE Reserved

OnAliasCycle(v) == IsAlias(v) /\ \E n \in 1..Len(values) : AliasWalk(v, n) = v
LeadsToAliasCycle(v) == \E m \in 0..Len(values) : OnAliasCycle(AliasWalk(v, m))

\* The value the alias chain of v ends in (v is not on and does not lead to a cycle).
AliasEnd(v) ==
    AliasWalk(v, CHOOSE n \in 0..Len(values) :
                    AliasWalk(v, n) # Reserved /\ ~IsAlias(AliasWalk(v, n)))

TypeOfValue(v) == IF v \in 0..(Len(values) - 1) THEN values[v + 1].ty ELSE "VOID"

FirstCyclic ==
    aliases[CHOOSE i \in 1..Len(aliases) :
               /\ LeadsToAliasCycle(aliases[i])
               /\ \A j \in 1..(i - 1) : ~LeadsToAliasCycle(aliases[j])]

Dangling ==
    /\ isa_spec.kind = "Err"
    /\ isa_spec.msg = "dangling 'set' command after ISA specification has no effect."

\* The loop of parse_isa_specs has ended without an error of a line.
PreludeEnded == isa_spec.kind \in {"None", "Some"} \/ Dangling

SetAt == { i \in 1..Len(prelude) : prelude[i].cmd = "set" }
IsaAt == { i \in 1..Len(prelude) : prelude[i].cmd = "isa" }
BuiltIsaAt == { i \in IsaAt : isa_lookup(prelude[i].name) = "Ok" }

\* C12 as stated: counting every `isa` line.  The dangling error is given
\* iff there is an `isa` line and a `set` line after the last `isa` line, and
\* the `set` line reported is not followed by an `isa` line.
C12_DanglingAnyIsa ==
    PreludeEnded =>
        /\ Dangling <=> (IsaAt # {} /\ \E j \in SetAt : \A i \in IsaAt : i < j)
        /\ Dangling => \A i \in IsaAt : i < isa_spec.line

\* C12: over every interleaving of `set` and `isa` lines, counting the `isa`
\* lines that name a built-in ISA (a line naming an ISA that is known but not
\* built in is skipped): the dangling error is given iff there is such an
\* `isa` line and a `set` line after the last of them; it is located at the
\* last `set` line, which no such `isa` line follows.
C12_DanglingSet ==
    PreludeEnded =>
        /\ Dangling <=> (BuiltIsaAt # {} /\ \E j \in SetAt : \A i \in BuiltIsaAt : i < j)
        /\ Dangling =>
             /\ isa_spec.line \in SetAt
             /\ \A j \in SetAt : j <= isa_spec.line
             /\ \A i \in BuiltIsaAt : i < isa_spec.line

\* `isa riscv`, then `set`, then an `isa` line that is skipped: the `set` line
\* is reported although an `isa` line follows it.
C12_Witness ==
    /\ Dangling
    /\ \E i \in IsaAt : i > isa_spec.line /\ isa_lookup(prelude[i].name) = "Unsupported"
    /\ \E i \in BuiltIsaAt : i < isa_spec.line

SettingsBefore(i) == UNION { prelude[j].words : j \in { k \in SetAt : k < i } }

RECURSIVE BuiltIsas(_)
BuiltIsas(i) ==
    IF i > Len(prelude) THEN <<>>
    ELSE (IF i \in BuiltIsaAt
          THEN <<[name |-> prelude[i].name, flags |-> SettingsBefore(i),
                  settings |-> prelude[i].words]>>
          ELSE <<>>) \o BuiltIsas(i + 1)

\* C13 as stated: counting every `isa` line.
C13_ResultAnyIsa ==
    isa_spec.kind \in {"None", "Some"} =>
        (isa_spec.kind = "None" <=> IsaAt = {})

\* C13: when parse_isa_specs succeeds, the result is None(flags), with the
\* settings of all `set` lines, if no `isa` line naming a built-in ISA was
\* read, and otherwise Some(list) with one ISA per such line, in order, each
\* with the settings of the `set` lines before it and its own settings.
C13_ResultKind ==
    isa_spec.kind \in {"None", "Some"} =>
        IF BuiltIsaAt = {}
        THEN isa_spec = IsaSpecNone(SettingsBefore(Len(prelude) + 1))
        ELSE isa_spec = IsaSpecSome(BuiltIsas(1))

\* The only `isa` line names an ISA that is not built in: the result is
\* None with the settings of the `set` line.
C13_Witness ==
    /\ isa_spec.kind = "None"
    /\ isa_spec.flags # {}
    /\ IsaAt # {}

(***************************************************************************)
(* infer_typevar                                                            *)
(***************************************************************************)

TvOk(t) == [err |-> NoPErr, ty |-> t]
TvFails(m, e) == tv_ret.err = PErr(TvLoc, m, e)

TvTypeset == constraints(tv_inst.opcode).ctrl_typeset
TvOperand == tv_inst.args[1]
TvOperandData == tv_ctx.values[TvOperand + 1]
TvOperandResolved ==
    /\ TvOperandData.k # "invalid"
    /\ TvOperandData.k = "alias" => TvOperandData.ty # "VOID"

\* The type the rule table chooses, when it chooses one.
TvChecked(t) ==
    IF TvTypeset # None
    THEN IF t \in Unwrap(TvTypeset) THEN tv_ret = TvOk(t)
                                   ELSE TvFails("not a valid typevar", <<>>)
    ELSE IF t # "VOID" THEN TvFails("does not take a typevar", <<>>)
                       ELSE tv_ret = TvOk("VOID")

\* C14: infer_typevar follows the rule table: an explicit type is used as
\* written; else, for an opcode with typevar-operand inference, the type of
\* the designated operand, which must be defined and resolved; else a
\* polymorphic opcode is an error; else the type is VOID.  The chosen type
\* must be in the controlling typeset when the opcode has one, and a type
\* other than VOID on an opcode without a typeset is an error.
C14_InferTypevar ==
    tv_ret # TvPending =>
        LET c == constraints(tv_inst.opcode)
        IN  IF tv_inst.explicit_ctrl_type # None
            THEN TvChecked(Unwrap(tv_inst.explicit_ctrl_type))
            ELSE IF c.use_typevar_operand
            THEN IF TvOperand \notin tv_ctx.defined
                 THEN TvFails("can't infer, not yet defined", <<"v", TvOperand>>)
                 ELSE IF ~TvOperandResolved
                 THEN TvFails("can't infer, not yet resolved", <<"v", TvOperand>>)
                 ELSE TvChecked(TvOperandData.ty)
            ELSE IF c.is_polymorphic
            THEN TvFails("type variable required for polymorphic opcode", <<>>)
            ELSE tv_ret = TvOk("VOID")

\* An inferred operand type outside the typeset, next to an alias of it.
C14_Witness ==
    /\ tv_inst = [opcode |-> "iadd_imm", explicit_ctrl_type |-> None, args |-> <<0>>]
    /\ tv_ctx.values[1] = [k |-> "inst", ty |-> "f32", orig |-> Reserved]
    /\ TvFails("not a valid typevar", <<>>)

(***************************************************************************)
(* Comment gathering                                                        *)
(***************************************************************************)

\* Every list of claimed comments the parser holds or has given out.
CommentLists == <<comments, preamble_comments>> \o details

RECURSIVE Flatten(_)
Flatten(ss) == IF ss = <<>> THEN <<>> ELSE Head(ss) \o Flatten(Tail(ss))

ClaimedComments == Flatten(CommentLists)

\* The comment tokens read while gathering was active.
GatheredTexts == { i \in 1..Len(lexlog) : lexlog[i] }

Occurrences(seq, x) == Cardinality({ i \in 1..Len(seq) : seq[i] = x })

\* The claim_gathered_comments call that follows the reading of comment c.
NextClaim(c) ==
    LET js == { j \in 1..Len(claimlog) : claimlog[j].upto >= c }
    IN  IF js = {} THEN None
        ELSE Some(claimlog[CHOOSE j \in js : \A k \in js : j <= k])

Increasing(seq) == \A i, j \in 1..Len(seq) : i < j => seq[i].text < seq[j].text

\* C15: a comment token read while gathering is active is, as long as no
\* claim_gathered_comments call has followed, once in the buffer, and from
\* that call on once in the claimed comments, with the entity of that call;
\* a comment read while gathering is not active is nowhere; the claimed
\* comments keep the source order; and a function's comments hold no comment
\* read before its `function` keyword.
C15_CommentOwner ==
    cphase # "panic" =>
        /\ \A c \in 1..Len(lexlog) :
             LET buffered == Occurrences(gathered_comments, c)
                 claimed  == Cardinality({ i \in 1..Len(ClaimedComments) :
                                              ClaimedComments[i].text = c })
             IN  IF ~lexlog[c] THEN buffered = 0 /\ claimed = 0
                 ELSE IF NextClaim(c) = None THEN buffered = 1 /\ claimed = 0
                 ELSE /\ buffered = 0
                      /\ claimed = 1
                      /\ \A i \in 1..Len(ClaimedComments) :
                            ClaimedComments[i].text = c =>
                               ClaimedComments[i].entity = Unwrap(NextClaim(c)).entity
        /\ \A i, j \in 1..Len(gathered_comments) :
              i < j => gathered_comments[i] < gathered_comments[j]
        /\ \A k \in 1..Len(CommentLists) : Increasing(CommentLists[k])
        /\ \A k \in 1..Len(details) : \A i \in 1..Len(details[k]) :
              details[k][i].text > func_kw[k]

\* The assertions of start_gathering_comments, claim_gathered_comments,
\* take_comments and parse_function hold.
C15_NoPanic == cphase # "panic"

\* Two functions of a file, each with comments before its `function`
\* keyword, and an entity of the first with two comments in source order.
C15_Witness ==
    /\ cphase = "done"
    /\ from_test
    /\ Len(details) = 2
    /\ Len(preamble_comments) = 1
    /\ func_kw[2] > func_kw[1]
    /\ \E i \in 1..Len(details[1]) : details[1][i].entity # AnyEntityFunction
    /\ \E i \in 1..Len(details[1]) :
          /\ details[1][i].entity = AnyEntityFunction
          /\ details[1][i].text > claimlog[2].upto
    /\ \E c \in 1..Len(lexlog) : ~lexlog[c]

(***************************************************************************)
(* Signatures: parse and print                                              *)
(***************************************************************************)

\* The canonical form, recognized token by token: each parameter is a type,
\* at most one extension, then at most one purpose other than normal; the
\* arrow is written iff there are returns; the calling convention is
\* written, and is the last token.
CanonParamEnd(toks, p) ==
    IF SigToken(toks, p) \notin SigTypes THEN 0
    ELSE LET p2 == IF SigToken(toks, p + 1) \in {"uext", "sext"} THEN p + 2 ELSE p + 1
         IN  IF SigToken(toks, p2) \in ArgumentPurposes \ {"normal"} THEN p2 + 1 ELSE p2

RECURSIVE CanonListEnd(_, _)
CanonListEnd(toks, p) ==
    LET e == CanonParamEnd(toks, p)
    IN  IF e = 0 THEN 0
        ELSE IF SigToken(toks, e) = "," THEN CanonListEnd(toks, e + 1) ELSE e

Canonical(toks) ==
    /\ SigToken(toks, 1) = "("
    /\ LET a == IF SigToken(toks, 2) = ")" THEN 2 ELSE CanonListEnd(toks, 2)
       IN  /\ a # 0
           /\ SigToken(toks, a) = ")"
           /\ LET b == IF SigToken(toks, a + 1) = "->" THEN CanonListEnd(toks, a + 2) ELSE a + 1
              IN  /\ b # 0
                  /\ SigToken(toks, b) \in CallConvs
                  /\ b = Len(toks)

Revisits == { k \in 1..Len(fvisits) : fvisits[k].livein[fvisits[k].ebb] # None }

\* C17: a visit of an EBB whose livein is Some(v) already returns Some(v)
\* or an error, never None and never another value; this holds of every EBB
\* with a live-in value in every state, whichever EBB is visited next; the
\* assertions of check() do not fail, and the conflicting live-in error is
\* never returned.
C17_RevisitKeepsLivein ==
    /\ \A k \in Revisits :
          fvisits[k].ret.ok => fvisits[k].ret.live = fvisits[k].livein[fvisits[k].ebb]
    /\ \A e \in DOMAIN livein :
          livein[e] # None =>
             LET r == visit_ebb(func, livein, isa, e)
             IN  r.ok => r.live = livein[e]
    /\ fresult # "Panic"
    /\ ferr.msg # "conflicting live-in CPU flags"

\* An EBB with a live-in value was visited again, after the live-in of
\* another EBB had been set, and returned its value.
C17_Witness ==
    \E k \in Revisits :
        /\ fvisits[k].ret.ok
        /\ fvisits[k].ret.live # None
        /\ \E e \in Ebbs : e # fvisits[k].ebb /\ fvisits[k].livein[e] # None

\* C18: each livein[e] starts as None, changes only from None to Some(v) and
\* then keeps that value; every EBB that has been visited with a live-in
\* value had the same value at each later visit and has it now.
C18_Step ==
    \A e \in DOMAIN livein :
        /\ livein[e] # None => livein'[e] = livein[e]
        /\ livein'[e] # livein[e] => livein[e] = None /\ livein'[e] # None

C18_History ==
    /\ fvisits # <<>> => \A e \in Ebbs : fvisits[1].livein[e] = None
    /\ \A j, k \in 1..Len(fvisits) : \A e \in Ebbs :
          (j < k /\ fvisits[j].livein[e] # None) => fvisits[k].livein[e] = fvisits[j].livein[e]
    /\ \A j \in 1..Len(fvisits) : \A e \in Ebbs :
          fvisits[j].livein[e] # None => livein[e] = fvisits[j].livein[e]

C18_LiveinMonotone == [][C18_Step]_vars /\ [](C18_History)

\* Verification returned Ok after a live-in value was set and its EBB and
\* another were visited again.
C18_Witness ==
    /\ fresult = "Ok"
    /\ \E e \in Ebbs : livein[e] # None
    /\ \E j \in Revisits : \E k \in 1..Len(fvisits) :
          j < k /\ fvisits[k].ebb # fvisits[j].ebb

HasLoop(f) == \E e \in Ebbs : e \in Preds(f, e) \/ \E d \in Ebbs : d # e /\ e \in Preds(f, d) /\ d \in Preds(f, e)

\* The worklist is a set.
C19_NoDuplicates ==
    \A i, j \in 1..Len(worklist) : i # j => worklist[i] # worklist[j]

\* Before the first visit the worklist holds every EBB.
C19_Initialised ==
    (fresult = "running" /\ fvisits = <<>>) => Range(worklist) = Ebbs

\* A step of check() pops the last EBB and appends only predecessors of it,
\* and only, and then all of them, when its live-in goes from None to Some.
C19_Refill ==
    worklist' # worklist =>
        /\ worklist # <<>>
        /\ LET ebb == worklist[Len(worklist)]
               rest == SubSeq(worklist, 1, Len(worklist) - 1)
               set == livein[ebb] = None /\ livein'[ebb] # None
           IN  /\ Len(worklist') >= Len(rest)
               /\ SubSeq(worklist', 1, Len(rest)) = rest
               /\ \A i \in (Len(rest) + 1)..Len(worklist') : worklist'[i] \in Preds(func, ebb)
               /\ Len(worklist') > Len(rest) => set
               /\ set => Preds(func, ebb) \subseteq Range(worklist')

\* C19: verify_flags terminates on every function: the worklist starts with
\* every EBB, holds no duplicates, is refilled only with the predecessors of
\* an EBB whose live-in changes from None to Some, and check() returns, with
\* the worklist empty when it returns Ok.
C19_Worklist ==
    /\ [](C19_NoDuplicates /\ C19_Initialised /\ (fresult = "Ok" => worklist = <<>>))
    /\ [][C19_Refill]_vars

C19_Terminates == C19_Worklist /\ <>(fresult \in {"Ok", "Err"})

\* Ok was returned for a function with a loop after a refill of the worklist.
C19_Witness ==
    /\ fresult = "Ok"
    /\ HasLoop(func)
    /\ Len(fvisits) > NumEbbs
    /\ \E e \in Ebbs : livein[e] # None /\ e \in Preds(func, e)

\* live_val when visit k of the history reaches instruction i of its EBB
\* (walking backwards), or the error that ended the visit below i.
RECURSIVE ReachedWith(_, _)
ReachedWith(k, i) ==
    LET v == fvisits[k]
        insts == func.ebbs[v.ebb]
    IN  IF i >= Len(insts) THEN [ok |-> TRUE, live |-> None, err |-> NoErr]
        ELSE LET b == ReachedWith(k, i + 1)
             IN  IF ~b.ok THEN b ELSE VisitInst(func, v.livein, isa, insts[i + 1], b.live)

\* The instructions of the visits that were reached with a live value.
ReachedLive ==
    { p \in UNION { {k} \X (1..Len(func.ebbs[fvisits[k].ebb])) : k \in 1..Len(fvisits) } :
         ReachedWith(p[1], p[2]).ok /\ ReachedWith(p[1], p[2]).live # None }

InstAt(p) == func.ebbs[fvisits[p[1]].ebb][p[2]]
LiveAt(p) == Unwrap(ReachedWith(p[1], p[2]).live)
OutcomeAt(p) == VisitInst(func, fvisits[p[1]].livein, isa, InstAt(p), Some(LiveAt(p)))
EncodingError(l) == Err("encoding clobbers live CPU flags", Some(l), None)
OtherFlagsResults(p) ==
    { r \in Range(InstAt(p).res) : r # LiveAt(p) /\ is_flags(value_type(r)) }

\* C20 as stated: every instruction reached with live_val = Some(l) whose
\* encoding clobbers the flags ends the verification with the encoding error.
C20_ClobberAlways ==
    \A p \in ReachedLive :
        (isa /\ InstAt(p).enc = "clobber") =>
            /\ OutcomeAt(p) = [ok |-> FALSE, live |-> Some(LiveAt(p)), err |-> EncodingError(LiveAt(p))]
            /\ fvisits[p[1]].ret.err = EncodingError(LiveAt(p))

\* C20: for every instruction reached with live_val = Some(l): a result of
\* flags type other than l fails with 'clobbers live CPU flags' whatever the
\* encoding; otherwise, when an ISA is given, the encoding clobbers the
\* flags and no result of the instruction is l, the visit and the
\* verification fail with 'encoding clobbers live CPU flags in l'; in every
\* other case the encoding error is not given at this instruction.
C20_ClobberAfterScan ==
    \A p \in ReachedLive :
        LET l == LiveAt(p)
            out == OutcomeAt(p)
        IN  IF OtherFlagsResults(p) # {}
            THEN /\ ~out.ok
                 /\ out.err.msg = "clobbers live CPU flags"
                 /\ out.err.b = Some(l)
                 /\ fvisits[p[1]].ret.err = out.err
            ELSE IF isa /\ InstAt(p).enc = "clobber" /\ l \notin Range(InstAt(p).res)
            THEN /\ ~out.ok
                 /\ out.err = EncodingError(l)
                 /\ fvisits[p[1]].ret.err = EncodingError(l)
                 /\ (p[1] = Len(fvisits) => fresult = "Err" /\ ferr = EncodingError(l))
            ELSE out.err.msg # "encoding clobbers live CPU flags"

\* The verification failed with the encoding error at an instruction that
\* clobbers the flags above a use of l, in a visit after the first.
C20_Witness ==
    /\ fresult = "Err"
    /\ Len(fvisits) > 1
    /\ \E p \in ReachedLive :
          /\ p[1] = Len(fvisits)
          /\ isa /\ InstAt(p).enc = "clobber"
          /\ LiveAt(p) \notin Range(InstAt(p).res)
          /\ ferr = EncodingError(LiveAt(p))

(***************************************************************************)
(* Stackmap inserter: the stackmaps at the top of an EBB.                   *)
(***************************************************************************)

\* The entries of the insertion history that are top-of-EBB stackmaps of e.
TopsAt(e) == { k \in 1..Len(inserted) : inserted[k].ebb = e /\ inserted[k].where = "top" }

\* The destinations of a branch: every one of them, jump-table entries
\* included, and the one branch_destination reports.
AllDests(inst) == BranchDests(sfunc, inst)
OneDest(inst) == branch_destination(inst)

BranchesToSelf(D(_), e) ==
    \E i \in 1..Len(sfunc.ebbs[e]) : e \in D(sfunc.ebbs[e][i])

TargetOfLaterEbb(D(_), e) ==
    \E e2 \in DOMAIN sfunc.ebbs : \E i \in 1..Len(sfunc.ebbs[e2]) :
        e2 > e /\ e \in D(sfunc.ebbs[e2][i])

\* The step is the start of an iteration of the EBB loop / its end.
IsEbbTopStep == spc = "top" /\ spc' = "walk"
IsEbbEndStep == spc = "walk" /\ spc' # "walk"

InsertsTopOf(e) ==
    /\ Len(inserted') = Len(inserted) + 1
    /\ SubSeq(inserted', 1, Len(inserted)) = inserted
    /\ inserted'[Len(inserted')].ebb = e
    /\ inserted'[Len(inserted')].where = "top"
    /\ IsStackmapOf(slayout'[e][1], LiveRefsBefore(e, 1))

\* An EBB with a live reference that branches to itself and is no target of
\* a later EBB gets nothing at the start of its iteration and one stackmap
\* from the fallback; one that is a target of a later EBB too gets its
\* stackmap at the start and nothing from the fallback.
SelfLoopSteps(D(_)) ==
    (BranchesToSelf(D, curr) /\ LiveRefsBefore(curr, 1) # {}) =>
        IF TargetOfLaterEbb(D, curr)
        THEN /\ IsEbbTopStep => InsertsTopOf(curr)
             /\ IsEbbEndStep => inserted' = inserted
        ELSE /\ IsEbbTopStep => inserted' = inserted
             /\ IsEbbEndStep => InsertsTopOf(curr)

AtMostOneTop == \A e \in DOMAIN slayout : Cardinality(TopsAt(e)) <= 1

SelfLoopsHaveOne(D(_)) ==
    spc = "done" =>
        \A e \in DOMAIN slayout :
            (BranchesToSelf(D, e) /\ LiveRefsBefore(e, 1) # {}) =>
                /\ Cardinality(TopsAt(e)) = 1
                /\ IsStackmapOf(slayout[e][1], LiveRefsBefore(e, 1))

C21_SelfLoopSteps == SelfLoopSteps(OneDest)
C21_AnySelfLoopSteps == SelfLoopSteps(AllDests)

LaterDests(D(_), e) ==
    UNION { D(sfunc.ebbs[e2][i]) :
              <<e2, i>> \in UNION { {x} \X (1..Len(sfunc.ebbs[x])) :
                                      x \in { y \in DOMAIN sfunc.ebbs : y > e } } }

\* The original instructions of the current EBB the walk has passed, the
\* one under the cursor included.
Walked ==
    IF pos.at = "Before" THEN {}
    ELSE { slayout[curr][i].id :
             i \in 1..(IF pos.at = "At" THEN pos.idx ELSE Len(slayout[curr])) } \ {0}

WalkedDests(D(_)) == UNION { D(sfunc.ebbs[curr][id]) : id \in Walked }

DestEbbsAre(D(_)) ==
    /\ spc = "top" => 
          /\ dest_ebbs = LaterDests(D, curr)
          /\ curr \in dest_ebbs <=> TargetOfLaterEbb(D, curr)
    /\ spc = "walk" => dest_ebbs = LaterDests(D, curr) \cup WalkedDests(D)

C22_Grows == dest_ebbs \subseteq dest_ebbs'

Originals(seq) == SelectSeq(seq, LAMBDA inst : inst.id # 0)

RemoveAt(seq, i) == SubSeq(seq, 1, i - 1) \o SubSeq(seq, i + 1, Len(seq))

\* The layout holds the EBBs it started with, the original instructions
\* of every EBB unchanged and in their order, and stackmaps.
OnlyStackmapsAdded ==
    /\ DOMAIN slayout = DOMAIN sfunc.ebbs
    /\ \A e \in DOMAIN slayout :
          /\ Originals(slayout[e]) = LayoutOf(sfunc)[e]
          /\ \A i \in 1..Len(slayout[e]) :
                slayout[e][i].id = 0 => slayout[e][i].op = "stackmap"

\* A step leaves the layout as it is or inserts one stackmap into one EBB.
C23_Step ==
    \/ slayout' = slayout
    \/ \E e \in DOMAIN slayout :
          /\ DOMAIN slayout' = DOMAIN slayout
          /\ \A e2 \in DOMAIN slayout \ {e} : slayout'[e2] = slayout[e2]
          /\ \E i \in 1..Len(slayout'[e]) :
                /\ slayout'[e][i].op = "stackmap"
                /\ slayout'[e][i].id = 0
                /\ RemoveAt(slayout'[e], i) = slayout[e]

\* C23: emit_stackmaps only inserts stackmap instructions: every step
\* leaves the layout alone or inserts one stackmap, so in every state each
\* EBB holds its original instructions, unchanged and in their order, and
\* the EBBs are the ones the pass started with, in the same order.
C23_OnlyInserts == [](OnlyStackmapsAdded) /\ [][C23_Step]_vars

\* The pass has ended and an EBB got two stackmaps between its two original
\* instructions.
C23_Witness ==
    /\ spc = "done"
    /\ \E e \in DOMAIN slayout :
          /\ Len(sfunc.ebbs[e]) = 2
          /\ Len(slayout[e]) = 4
          /\ slayout[e][1].op = "stackmap"

(***************************************************************************)
(* Stackmap inserter: the walk and its termination.                         *)
(***************************************************************************)

\* The EBBs the outer loop took, and the instructions the walk took in e,
\* in order.
EbbsTaken == SelectSeq(walklog, LAMBDA w : w.kind = "ebb")
InstsTaken(e) == SelectSeq(walklog, LAMBDA w : w.kind = "inst" /\ w.ebb = e)

\* The EBBs are taken in reverse layout order, each once; the original
\* instructions of an EBB are taken in their order, each once, after the
\* EBB itself; a stackmap is taken only as the first instruction of its EBB
\* (the one inserted at the top before the walk started), never the one
\* inserted before a call.
WalkInOrder ==
    /\ \A k \in 1..Len(EbbsTaken) : EbbsTaken[k].ebb = NumSEbbs - k + 1
    /\ \A e \in SEbbs :
          LET t == InstsTaken(e)
              o == SelectSeq(t, LAMBDA w : w.id # 0)
          IN  /\ \A k \in 1..Len(o) : o[k].id = k
              /\ Len(o) <= Len(sfunc.ebbs[e])
              /\ \A k \in 1..Len(t) :
                    t[k].id = 0 => /\ k = 1
                                   /\ t[k].op = "stackmap"
                                   /\ \E j \in TopsAt(e) : TRUE
    /\ \A k \in 1..Len(walklog) :
          walklog[k].kind = "inst" =>
              \E j \in 1..(k - 1) : walklog[j].kind = "ebb" /\ walklog[j].ebb = walklog[k].ebb

\* At the end every EBB and every original instruction was taken.
WalkComplete ==
    spc = "done" =>
        /\ Len(EbbsTaken) = NumSEbbs
        /\ \A e \in SEbbs :
              Len(SelectSeq(InstsTaken(e), LAMBDA w : w.id # 0)) = Len(sfunc.ebbs[e])

\* A step that inserts a stackmap before a call leaves the cursor on that
\* call, with the stackmap directly before it.
C24_CursorBack ==
    (Len(inserted') > Len(inserted) /\ inserted'[Len(inserted')].where = "call") =>
        /\ pos'.at = "At"
        /\ walklog' # walklog
        /\ slayout'[pos'.ebb][pos'.idx].op = "call"
        /\ slayout'[pos'.ebb][pos'.idx].id = walklog'[Len(walklog')].id
        /\ slayout'[pos'.ebb][pos'.idx - 1].op = "stackmap"

C24_Walk == WalkInOrder /\ WalkComplete

\* C24: emit_stackmaps terminates; its walk takes each EBB exactly once, in
\* reverse layout order, and each original instruction exactly once; after
\* a stackmap is inserted before a call the cursor is back on that call, so
\* that stackmap is not taken by the walk and the call is not taken twice.
C24_Terminates ==
    /\ [](C24_Walk)
    /\ [][C24_CursorBack]_vars
    /\ <>(spc = "done")

\* The pass has ended on a function where a stackmap was inserted before a
\* call that is not the last instruction of its EBB, and the walk took the
\* call and the instruction after it once each.
C24_Witness ==
    /\ spc = "done"
    /\ \E k \in 1..Len(inserted) :
          /\ inserted[k].where = "call"
          /\ LET e == inserted[k].ebb
             IN  /\ sfunc.ebbs[e][1].op = "call"
                 /\ Len(sfunc.ebbs[e]) = 2
                 /\ Len(InstsTaken(e)) = 2

(***************************************************************************)
(* Stackmap inserter: where stackmaps go.                                   *)
(***************************************************************************)

\* The stackmap at index i of e stands directly before a call before which
\* references are live, and lists them.
BeforeCall(e, i) ==
    /\ i < Len(slayout[e])
    /\ slayout[e][i + 1].op = "call"
    /\ LiveRefsBefore(e, slayout[e][i + 1].id) # {}
    /\ IsStackmapOf(slayout[e][i], LiveRefsBefore(e, slayout[e][i + 1].id))

\* e is the destination of a branch located in e or in a later EBB.
BackwardTarget(e) == BranchesToSelf(OneDest, e) \/ TargetOfLaterEbb(OneDest, e)

\* The stackmap at index i of e is the first instruction of a backward
\* target.
AtTopOfTarget(e, i) == i = 1 /\ BackwardTarget(e) /\ TopsAt(e) # {}

\* e is targeted by branches, all of them located in earlier EBBs.
OnlyForwardTarget(e) ==
    /\ \E e2 \in DOMAIN sfunc.ebbs : \E i \in 1..Len(sfunc.ebbs[e2]) :
          e2 < e /\ e \in AllDests(sfunc.ebbs[e2][i])
    /\ ~BranchesToSelf(AllDests, e)
    /\ ~TargetOfLaterEbb(AllDests, e)

\* C28: every stackmap in the layout stands directly before a call with a
\* non-empty set of live references or is the first instruction of an EBB
\* that is the destination of a branch in the same or a later EBB; every
\* insertion recorded is one of the two; an EBB targeted only by branches
\* from earlier EBBs gets no stackmap at its top.
C28_OnlyTwoPlaces ==
    /\ \A p \in StackmapsIn(slayout) : BeforeCall(p[1], p[2]) \/ AtTopOfTarget(p[1], p[2])
    /\ \A k \in 1..Len(inserted) :
          /\ inserted[k].where \in {"call", "top"}
          /\ inserted[k].where = "top" => BackwardTarget(inserted[k].ebb)
    /\ Cardinality(StackmapsIn(slayout)) = Len(inserted)
    /\ \A e \in DOMAIN slayout : OnlyForwardTarget(e) => TopsAt(e) = {}

\* The pass has ended; the last EBB is targeted only by a branch of the
\* first EBB, a reference is live at its top, and it got no stackmap there,
\* while a stackmap was inserted elsewhere.
C28_Witness ==
    /\ spc = "done"
    /\ OnlyForwardTarget(NumSEbbs)
    /\ LiveRefsBefore(NumSEbbs, 1) # {}
    /\ TopsAt(NumSEbbs) = {}
    /\ slayout[NumSEbbs][1].op # "stackmap"
    /\ inserted # <<>>

(***************************************************************************)
(* parse_isa_specs: what each ISA is built from.                            *)
(***************************************************************************)

\* The `isa` lines an ISA was built for: the ISA is built in and every
\* option of the line is one of its settings.
PushedIsaAt == { i \in BuiltIsaAt : parse_options(prelude[i].words, {}).ok }

\* The ISAs of the lines from i on, each with the options of the `set`
\* lines before its line and the options of its own line.
RECURSIVE IsasFrom(_)
IsasFrom(i) ==
    IF i > Len(prelude) THEN <<>>
    ELSE (IF i \in PushedIsaAt
          THEN <<[name |-> prelude[i].name, flags |-> SettingsBefore(i),
                  settings |-> prelude[i].words]>>
          ELSE <<>>) \o IsasFrom(i + 1)

\* What a command line changes: a `set` line changes no ISA; an `isa` line
\* changes neither the shared flags nor an ISA built before, and the ISA it
\* adds has the shared flags as they are and the options of the line.
C25_Frame ==
    Len(prelude') > Len(prelude) =>
        LET l == prelude'[Len(prelude')]
        IN  /\ l.cmd = "set" => isas' = isas
            /\ l.cmd = "isa" =>
                  /\ flag_builder' = flag_builder
                  /\ Len(isas') >= Len(isas)
                  /\ SubSeq(isas', 1, Len(isas)) = isas
                  /\ Len(isas') > Len(isas) =>
                        /\ Len(isas') = Len(isas) + 1
                        /\ isas'[Len(isas')].flags = flag_builder
                        /\ isas'[Len(isas')].settings = l.words

\* C25: in every state the ISAs built are those of the `isa` lines read,
\* in order, each with exactly the options of the `set` lines before its
\* line and the options of its own line; a `set` line changes no ISA, an
\* `isa` line changes neither the shared flags nor another ISA, and the
\* end of the prelude changes none of them.
C25_IsaBuiltFrom ==
    /\ [](isas = IsasFrom(1))
    /\ [][C25_Frame]_vars
    /\ [][Len(prelude') = Len(prelude) => (isas' = isas /\ flag_builder' = flag_builder)]_vars

\* Two ISAs were built with a `set` line between them: the first has no
\* shared option, the second has the option of the `set` line, and the
\* first `isa` line had an option of its own that the shared flags and the
\* second ISA do not have.
C25_Witness ==
    /\ isa_spec.kind = "Some"
    /\ Len(isa_spec.isas) = 2
    /\ isa_spec.isas[1].flags = {}
    /\ isa_spec.isas[1].settings # {}
    /\ isa_spec.isas[2].flags # {}
    /\ isa_spec.isas[2].settings = {}
    /\ flag_builder = isa_spec.isas[2].flags

(***************************************************************************)
(* Parser: the references of a function and the SourceMap.                  *)
(***************************************************************************)

Defined(ent) == contains(locations, ent)

\* The references the parser looks up: the operand values, the entity an
\* instruction refers to and the signature a function declaration names.
OperandValues == UNION { { <<"v", v>> : v \in Range(dfg_insts[i].args) } : i \in 1..Len(dfg_insts) }
InstRefs == UNION { dfg_insts[i].ref : i \in 1..Len(dfg_insts) }
FnDeclSigs ==
    { <<"sig", declared[i].data.r>> : i \in { k \in 1..Len(declared) : declared[k].ent[1] = "fn" } }
CheckedRefs == OperandValues \cup InstRefs \cup FnDeclSigs

\* The references the parser takes as they are written: the destination of a
\* jump, the entries of a jump table, the base of a `deref` global variable
\* and the global variable that is the base of a heap.
BranchDestinations ==
    { <<"ebb", dfg_insts[i].dest>> : i \in { k \in 1..Len(dfg_insts) : dfg_insts[k].dest # Reserved } }
JumpTableEntries ==
    UNION { { <<"ebb", e>> : e \in Range(declared[i].data.es) } :
              i \in { k \in 1..Len(declared) : declared[k].ent[1] = "jt" } }
GlobalVarBases ==
    { <<"gv", declared[i].data.r>> :
        i \in { k \in 1..Len(declared) : /\ declared[k].ent[1] \in {"gv", "heap"}
                                         /\ declared[k].data.r # Reserved } }
UncheckedRefs == BranchDestinations \cup JumpTableEntries \cup GlobalVarBases

\* C26 as stated: after a successful parse every entity referenced in the
\* preamble or the body, the EBBs named as branch destinations or
\* jump-table entries included, has a definition in the SourceMap.
C26_AllReferencesDefined ==
    pphase = "done" => \A ent \in CheckedRefs \cup UncheckedRefs : Defined(ent)

\* C26 for the references the parser looks up: after a successful parse
\* every operand value, every stack slot, global variable, heap, signature,
\* function and jump table an instruction refers to and every signature a
\* function declaration names has a definition in the SourceMap.
C26_CheckedReferencesDefined ==
    pphase = "done" => \A ent \in CheckedRefs : Defined(ent)

\* A parse has succeeded on a function that declares a signature and a
\* function naming it, and has an instruction that refers to the function.
C26_Witness ==
    /\ pphase = "done"
    /\ \E i \in 1..Len(dfg_insts) : \E n \in Handles :
          /\ dfg_insts[i].ref = Some(<<"fn", n>>)
          /\ \E k \in 1..Len(declared) :
                /\ declared[k].ent = <<"fn", n>>
                /\ declared[k].data.r # Reserved
                /\ \E j \in 1..(k - 1) : declared[j].ent = <<"sig", declared[k].data.r>>

(***************************************************************************)
(* Parser: the layout while a function is built.                            *)
(***************************************************************************)

\* The positions of the layout that hold the EBB.
LayoutPositions(ebb) == { i \in 1..Len(layout) : layout[i] = ebb }

\* Every instruction created was appended to one EBB, which is in the
\* layout once; every EBB is in the layout at most once.
LayoutTotality ==
    /\ \A i \in 1..Len(dfg_insts) : Cardinality(LayoutPositions(dfg_insts[i].ebb)) = 1
    /\ \A ebb \in PEbbs : Cardinality(LayoutPositions(ebb)) <= 1

\* C27 as stated: layout totality holds in every state the parser reaches
\* while it builds a function, also when the same EBB header is written
\* twice.
C27_LayoutTotality == LayoutTotality

\* Layout totality as long as no EBB header was written twice: in every
\* state that is not the failure of a second header of the same EBB.
C27_UntilDuplicateHeader ==
    ~(pphase = "error" /\ perr.msg = "duplicate entity" /\ perr.ent[1] = "ebb") => LayoutTotality

(***************************************************************************)
(* Parser: the handle of an inline signature.                               *)
(***************************************************************************)

SigRefPanic == perr.msg = "panic: duplicate SigRef entities created"

\* The signature handles given to inline signatures so far.
InlineSigs ==
    { declared[i].ent : i \in { k \in 1..Len(declared) :
                                   declared[k].ent[1] = "sig" /\ declared[k].data = InlineSig } }

\* The step reads a function declaration with an inline signature / an
\* explicit signature declaration.
ReadsInlineDecl ==
    /\ Len(declared') = Len(declared) + 2
    /\ declared'[Len(declared) + 1].data = InlineSig
ReadsSigDecl ==
    /\ Len(declared') = Len(declared) + 1
    /\ declared'[Len(declared')].ent[1] = "sig"

\* The inline signature takes the next key of the signature table, which
\* has no definition in the map, and is defined by the step without the
\* panic (the function handle itself may still be a duplicate); an explicit
\* declaration of a handle an inline signature has taken fails as a
\* duplicate.
C29_Step ==
    /\ ReadsInlineDecl =>
          LET ent == declared'[Len(declared) + 1].ent
          IN  /\ ent = <<"sig", Len(tables.sig)>>
              /\ ~contains(locations, ent)
              /\ contains(locations', ent)
              /\ ~SigRefPanic'
    /\ (ReadsSigDecl /\ declared'[Len(declared')].ent \in InlineSigs) =>
          /\ pphase' = "error"
          /\ perr'.msg = "duplicate entity"
          /\ perr'.ent = declared'[Len(declared')].ent

\* C29: an inline signature always takes a signature handle that has no
\* definition in the SourceMap, whatever declarations came before, so the
\* 'duplicate SigRef entities created' panic never happens; a later
\* explicit declaration of that handle fails with a duplicate-entity error.
C29_InlineSigFresh == [](~SigRefPanic) /\ [][C29_Step]_vars

\* After `sig1 = ...`, which fills sig0, an inline signature took sig2, and
\* the explicit declaration of sig2 that followed failed as a duplicate.
C29_Witness ==
    /\ pphase = "error"
    /\ perr.msg = "duplicate entity"
    /\ perr.ent = <<"sig", 2>>
    /\ Len(declared) = 4
    /\ declared[1].ent = <<"sig", 1>>
    /\ declared[2].ent = <<"sig", 2>> /\ declared[2].data = InlineSig
    /\ declared[4].ent = <<"sig", 2>>

(***************************************************************************)
(* Comment gathering: the mode flag                                         *)
(***************************************************************************)

\* The parser is about to read a `function` keyword, or has read the last.
AtFunctionStart == cphase \in {"list", "function", "done"}

\* parse_test or parse_function has returned an error.
CFailed == cphase = "error"

\* C30: no debug assertion of start_gathering_comments,
\* claim_gathered_comments, take_comments or parse_function fails: each
\* start finds gathering inactive and the buffer empty, each claim finds
\* gathering active, take_comments and each function start find it
\* inactive, and Parser.comments is empty at each function start.  Between
\* two parsing steps gathering is active only when the parse has failed
\* after a start, and the buffer is empty; the prelude, each function
\* header read and each function ended has had its claim.
C30_StrictAlternation ==
    /\ cphase # "panic"
    /\ gathering_comments => CFailed
    /\ ~gathering_comments => gathered_comments = <<>>
    /\ AtFunctionStart => comments = <<>>
    /\ from_test /\ cphase # "test" => Len(claimlog) >= 1 + Len(details) + Len(func_kw) - (IF CFailed THEN 1 ELSE 0)

\* parse_test is in the body of the second function of a file: the
\* prelude's comments and the first function's comments were taken, each
\* non-empty, and an entity of the second function has claimed a comment.
C30_Witness ==
    /\ from_test
    /\ cphase = "body"
    /\ Len(func_kw) = 2
    /\ Len(details) = 1
    /\ details[1] # <<>>
    /\ preamble_comments # <<>>
    /\ comments # <<>>

====
